---- MODULE Spec2Model ----
(***************************************************************************)
(* Audio pacing and silence-injection pipeline of the meditation app.      *)
(*                                                                         *)
(* Times are exact rationals: a time is a whole number of ticks, with      *)
(* TicksPerSecond ticks to the second, so that floor/ceil of               *)
(* time * sampleRate is computed as the source computes it without         *)
(* floating point.  A float sample s is the integer s * FloatOne.          *)
(***************************************************************************)
EXTENDS Integers, Sequences, FiniteSets, TLC

\* ---------------------------------------------------------------- bounds
TicksPerSecond == 2
SampleRate == 3
MaxWords == 3
MaxEndTick == 3
MaxTargetTick == 10
MaxDecodedLen == 7
MaxChannels == 2
MaxPasses == 2

\* ------------------------------------------------------ program constants
END_SILENCE_SECONDS == 2
FloatOne == 32768
HeaderSize == 44
BytesPerSample == 2

\* ---------------------------------------------------------------- helpers
Min(a, b) == IF a < b THEN a ELSE b
Max(a, b) == IF a > b THEN a ELSE b
FloorDiv(a, b) == a \div b
CeilDiv(a, b) == (a + b - 1) \div b

\* Durations are whole numbers of fine units, FinePerSecond to the second:
\* both a tick and a sample period are whole numbers of fine units.
FinePerSecond == TicksPerSecond * SampleRate
TicksToTime(t) == t * SampleRate
SamplesToTime(n) == n * TicksPerSecond

\* Math.floor(time * sampleRate) and Math.ceil(time * sampleRate)
FloorSamples(time) == FloorDiv(time * SampleRate, FinePerSecond)
CeilSamples(time) == CeilDiv(time * SampleRate, FinePerSecond)

\* A sample buffer (Float32Array) of len samples: data holds the samples that
\* have been written, at their 1-based positions; every other sample is the
\* 0 the buffer was created with.
NewBuffer(n) == [len |-> n, data |-> << >>]
BufferOf(samples) == [len |-> Len(samples), data |-> samples]

\* The decoded sample at 0-based index i of channel ch (float * FloatOne);
\* distinct non-zero values, so that every sample can be told apart.
SrcSample(ch, i) == 100 * ch + i + 1
DecodedChannel(ch, len) == [k \in 1..len |-> SrcSample(ch, k - 1)]
DecodedChannels(nc, len) == [ch \in 1..nc |-> DecodedChannel(ch, len)]

\* Mutant of SetSubarray: the copy reads the source from its start
SetSubarrayFromStart(out, src, from, to, at) ==
  [out EXCEPT !.data =
     [k \in (DOMAIN out.data) \cup ((at + 1)..(at + (to - from))) |->
        IF k > at /\ k <= at + (to - from) THEN src[k - at] ELSE out.data[k]]]

\* Float32Array.prototype.set(src.subarray(from, to), at), 0-based, to
\* exclusive; the caller has checked that the copy fits.
SetSubarray(out, src, from, to, at) ==
  [out EXCEPT !.data =
     [k \in (DOMAIN out.data) \cup ((at + 1)..(at + (to - from))) |->
        IF k > at /\ k <= at + (to - from) THEN src[from + (k - at)] ELSE out.data[k]]]

\* ------------------------------------------------------------ WAV encoder
ClampSample(s) == Max(0 - FloatOne, Min(FloatOne, s))

\* sample < 0 ? sample * 0x8000 : sample * 0x7FFF, stored by setInt16
\* (truncation toward zero)
ToInt16(s) ==
  LET c == ClampSample(s)
  IN IF c < 0 THEN c ELSE (c * 32767) \div FloatOne

audioBufferToWav(channels, sr) ==
  LET numChannels == Len(channels)
      numSamples == channels[1].len
      blockAlign == numChannels * BytesPerSample
      dataSize == numSamples * blockAlign
  IN [type |-> "audio/wav",
      numChannels |-> numChannels,
      sampleRate |-> sr,
      numSamples |-> numSamples,
      size |-> HeaderSize + dataSize,
      pcm |-> [ch \in 1..numChannels |->
                 [len |-> numSamples,
                  data |-> [k \in DOMAIN channels[ch].data |->
                              ToInt16(channels[ch].data[k])]]]]

\* new Blob([audioBuffer], { type: 'audio/mpeg' }): the bytes as given
OriginalBlob(bytesId) == [type |-> "audio/mpeg", bytes |-> bytesId]

\* ---------------------------------------------------------- word alignment
\* A word is its sequence of characters; the injector reads word and endTime.
Words == { <<"s", "o">>, <<"i", "n", ".">>, <<"o", "k", "?">>, <<"g", "o", "!">> }

\* Entries are ordered by time: each word ends after the one before it.
WordAlignments ==
  UNION { { a \in [1..n -> [word : Words, endTime : 0..MaxEndTick]] :
              \A i \in 1..(n - 1) : a[i].endTime < a[i + 1].endTime }
          : n \in 0..MaxWords }

\* /[.?!]$/.test(word)
EndsSentence(word) == Len(word) > 0 /\ word[Len(word)] \in {".", "?", "!"}

RECURSIVE findSplicePointsFrom(_, _)
findSplicePointsFrom(alignment, i) ==
  IF i > Len(alignment) THEN << >>
  ELSE IF EndsSentence(alignment[i].word)
       THEN << [endTime |-> alignment[i].endTime, word |-> alignment[i].word] >>
            \o findSplicePointsFrom(alignment, i + 1)
       ELSE findSplicePointsFrom(alignment, i + 1)

findSplicePoints(alignment) == findSplicePointsFrom(alignment, 1)

\* ------------------------------------------- injectSilenceBetweenSentences
lastAlignmentEndTime(alignment) ==
  IF Len(alignment) > 0 THEN TicksToTime(alignment[Len(alignment)].endTime) ELSE 0

\* Mutant of actualSpeechEnd: the decoded duration is taken for the speech end
actualSpeechEndDecoded(alignment, decodedDuration) == decodedDuration

actualSpeechEnd(alignment, decodedDuration) ==
  IF lastAlignmentEndTime(alignment) > 0
  THEN lastAlignmentEndTime(alignment)
  ELSE decodedDuration

totalSilenceNeeded(target, speechEnd) == Max(0, target - speechEnd)

endSilenceOf(total) == Min(END_SILENCE_SECONDS * FinePerSecond, total)

\* Mutant of insertionPointsOf: the silence is divided by all the splice points
insertionPointsAll(n) == n

insertionPointsOf(n) == IF n > 1 THEN n - 1 ELSE n

\* distributableSilence / insertionPoints, kept as an exact fraction of time
silenceChunkDuration(distributable, insertionPoints) ==
  IF distributable > 0
  THEN [num |-> distributable, den |-> insertionPoints]
  ELSE [num |-> 0, den |-> 1]

\* Math.floor(silenceChunkDuration * sampleRate)
ChunkSamples(chunk) == FloorDiv(chunk.num * SampleRate, chunk.den * FinePerSecond)

IsLastSplice(i, n) == i = n

\* chunkLen > 0 && writePos + chunkLen <= outputData.length
ChunkFits(chunkLen, writePos, outLen) == chunkLen > 0 /\ writePos + chunkLen <= outLen

\* One iteration of the splice loop for one channel.
SpliceStep(st, i, sp, src, chunk) ==
  LET endSample == Min(FloorSamples(TicksToTime(sp[i].endTime)), Len(src))
      chunkLen == endSample - st.prevEndSample
      fits == ChunkFits(chunkLen, st.writePos, st.out.len)
      wp1 == IF fits THEN st.writePos + chunkLen ELSE st.writePos
      gap == IF ~IsLastSplice(i, Len(sp)) /\ chunk.num > 0
             THEN ChunkSamples(chunk) ELSE 0
  IN [out |-> IF fits
              THEN SetSubarray(st.out, src, st.prevEndSample, endSample, st.writePos)
              ELSE st.out,
      writePos |-> wp1 + gap,
      prevEndSample |-> endSample,
      copies |-> IF fits
                 THEN Append(st.copies, [at |-> st.writePos, len |-> chunkLen,
                                         cap |-> st.out.len])
                 ELSE st.copies,
      skipped |-> IF chunkLen > 0 /\ ~fits THEN st.skipped + chunkLen ELSE st.skipped,
      gaps |-> Append(st.gaps, gap),
      silences |-> Append(st.silences,
                          IF ~IsLastSplice(i, Len(sp)) /\ chunk.num > 0
                          THEN chunk ELSE [num |-> 0, den |-> 1])]

RECURSIVE SpliceLoop(_, _, _, _, _)
SpliceLoop(st, i, sp, src, chunk) ==
  IF i > Len(sp) THEN st
  ELSE SpliceLoop(SpliceStep(st, i, sp, src, chunk), i + 1, sp, src, chunk)

\* Copy of the speech after the last splice point, up to the alignment end.
SpliceTail(st, src, speechEnd) ==
  LET speechEndSample == Min(CeilSamples(speechEnd), Len(src))
      remaining == speechEndSample - st.prevEndSample
      fits == st.prevEndSample < speechEndSample
              /\ st.writePos + remaining <= st.out.len
  IN [st EXCEPT
        !.out = IF fits
                THEN SetSubarray(st.out, src, st.prevEndSample, speechEndSample,
                                 st.writePos)
                ELSE st.out,
        !.copies = IF fits
                   THEN Append(st.copies, [at |-> st.writePos, len |-> remaining,
                                           cap |-> st.out.len])
                   ELSE st.copies,
        !.skipped = IF st.prevEndSample < speechEndSample /\ ~fits
                    THEN st.skipped + remaining ELSE st.skipped]

SpliceChannel(src, sp, chunk, speechEnd, totalOutputSamples) ==
  SpliceTail(
    SpliceLoop([out |-> NewBuffer(totalOutputSamples), writePos |-> 0,
                prevEndSample |-> 0, copies |-> << >>, skipped |-> 0,
                gaps |-> << >>, silences |-> << >>],
               1, sp, src, chunk),
    src, speechEnd)

\* Everything the injector does between the decode and the close of the
\* context, for a decode that produced numChannels channels of decodedLen
\* samples.
InjectAfterDecode(alignment, targetTicks, numChannels, decodedLen) ==
  LET target == TicksToTime(targetTicks)
      decoded == DecodedChannels(numChannels, decodedLen)
      decodedDuration == SamplesToTime(decodedLen)
      speechEnd == actualSpeechEnd(alignment, decodedDuration)
      total == totalSilenceNeeded(target, speechEnd)
      endSilence == endSilenceOf(total)
      distributable == total - endSilence
      sp == findSplicePoints(alignment)
      totalSamples == CeilSamples(target)
      insertionPoints == insertionPointsOf(Len(sp))
      chunk == IF Len(sp) = 0 THEN [num |-> 0, den |-> 1]
               ELSE silenceChunkDuration(distributable, insertionPoints)
      base == [speechEnd |-> speechEnd, total |-> total, endSilence |-> endSilence,
               distributable |-> distributable, splicePoints |-> Len(sp),
               chunk |-> chunk, decoded |-> decoded, decodedLen |-> decodedLen,
               numChannels |-> numChannels]
  IN IF total <= 0
     THEN base @@ [path |-> "asIs", threw |-> FALSE,
                   out |-> [ch \in 1..numChannels |-> BufferOf(decoded[ch])],
                   copies |-> << >>, gaps |-> << >>, silences |-> << >>,
                   skipped |-> 0]
     ELSE IF Len(sp) = 0
     THEN \* outputBuffer.getChannelData(ch).set(decodedAudio.getChannelData(ch))
          LET copy == [at |-> 0, len |-> decodedLen, cap |-> totalSamples]
          IN IF decodedLen > totalSamples
             THEN base @@ [path |-> "noSplice", threw |-> TRUE, out |-> << >>,
                           copies |-> << <<copy>> >>, gaps |-> << >>,
                           silences |-> << >>, skipped |-> 0]
             ELSE base @@ [path |-> "noSplice", threw |-> FALSE,
                           out |-> [ch \in 1..numChannels |->
                                      SetSubarray(NewBuffer(totalSamples), decoded[ch],
                                                  0, decodedLen, 0)],
                           copies |-> [ch \in 1..numChannels |-> <<copy>>],
                           gaps |-> << >>, silences |-> << >>, skipped |-> 0]
     ELSE LET per == [ch \in 1..numChannels |->
                        SpliceChannel(decoded[ch], sp, chunk, speechEnd, totalSamples)]
          IN base @@ [path |-> "splice", threw |-> FALSE,
                      out |-> [ch \in 1..numChannels |-> per[ch].out],
                      copies |-> [ch \in 1..numChannels |-> per[ch].copies],
                      gaps |-> per[1].gaps,
                      silences |-> per[1].silences,
                      skipped |-> per[1].skipped]

\* Fractions num / den, den > 0
Rat(n, d) == [num |-> n, den |-> d]
RatZero == Rat(0, 1)
RatLess(a, b) == a.num * b.den < b.num * a.den
RatEq(a, b) == a.num * b.den = b.num * a.den
RatAdd(a, b) ==
  IF a.num = 0 THEN b
  ELSE IF b.num = 0 THEN a
  ELSE IF a.den = b.den THEN Rat(a.num + b.num, a.den)
  ELSE Rat(a.num * b.den + b.num * a.den, a.den * b.den)
RatSub(a, b) ==
  IF a.den = b.den THEN Rat(a.num - b.num, a.den)
  ELSE Rat(a.num * b.den - b.num * a.den, a.den * b.den)

\* ------------------------------------------------- stretchAudioToFitDuration
\* originalDuration >= targetDurationSeconds * 0.95
\* Mutant of AlreadyLongEnough: only a clip of the full target duration is
\* long enough
AlreadyLongEnoughFull(originalDuration, target) == originalDuration >= target

AlreadyLongEnough(originalDuration, target) == originalDuration * 100 >= target * 95

\* The stretcher's AudioContext runs at one fixed rate (44100 Hz in the
\* source); the model scales it down, keeping 80 ms windows of whole samples.
StretchRate == 100
MaxWindows == 14
MaxQuietRuns == 2

\* Sample amplitudes of the stretcher are in units of 1 / 27000
AmplitudeOne == 27000
FADE_SAMPLES == 1323
\* new AudioContext({ sampleRate: 44100 })
ContextSampleRate == 44100
\* Math.min(1000, ...): the 1000 samples copied for the fade in, about 23 ms
\* of the context's rate, at the rate of the model
FadeInCopySamples == (1000 * StretchRate) \div ContextSampleRate

\* const threshold = 0.012
rmsThreshold == 12 * (AmplitudeOne \div 1000)
\* Math.floor(sampleRate * coarseWindowMs / 1000), coarseWindowMs = 80
coarseWindowOf(sampleRate) == (sampleRate * 80) \div 1000
\* Math.floor(sampleRate * minSilenceMs / 1000), minSilenceMs = 350
minSilenceSamplesOf(sampleRate) == (sampleRate * 350) \div 1000
\* Math.floor(sampleRate * 0.4)
edgeOffsetOf(sampleRate) == (sampleRate * 4) \div 10

RECURSIVE SumSquares(_, _, _)
SumSquares(data, start, end) ==
  IF start >= end THEN 0
  ELSE data[start + 1] * data[start + 1] + SumSquares(data, start + 1, end)

\* fastRMS(data, i, end) < threshold, positions 0-based, end exclusive
RmsBelowThreshold(data, start, end) ==
  SumSquares(data, start, end) < rmsThreshold * rmsThreshold * (end - start)

\* for (let i = startOffset; i < endOffset; i += coarseWindow) { ... }
RECURSIVE findBreaksLoop(_, _, _, _, _)
findBreaksLoop(data, sampleRate, i, silenceStart, breaks) ==
  IF i >= Len(data) - edgeOffsetOf(sampleRate) THEN breaks
  ELSE LET end == Min(i + coarseWindowOf(sampleRate), Len(data))
           next == i + coarseWindowOf(sampleRate)
       IN IF RmsBelowThreshold(data, i, end)
          THEN findBreaksLoop(data, sampleRate, next,
                              IF silenceStart < 0 THEN i ELSE silenceStart, breaks)
          ELSE IF silenceStart >= 0
               THEN findBreaksLoop(data, sampleRate, next, 0 - 1,
                      IF i - silenceStart >= minSilenceSamplesOf(sampleRate)
                      THEN Append(breaks, [pos |-> silenceStart + ((i - silenceStart) \div 2),
                                           len |-> i - silenceStart])
                      ELSE breaks)
               ELSE findBreaksLoop(data, sampleRate, next, silenceStart, breaks)

findBreaksFast(data, sampleRate) ==
  findBreaksLoop(data, sampleRate, edgeOffsetOf(sampleRate), 0 - 1, << >>)

\* Math.min(Math.floor(sampleRate * 0.03), FADE_SAMPLES)
fadeSamplesOf(sampleRate) == Min((sampleRate * 3) \div 100, FADE_SAMPLES)

\* The smoothstep t * t * (3 - 2 * t) at t = i / fadeSamples, as a fraction
Smoothstep(i, fadeSamples) ==
  Rat(i * i * (3 * fadeSamples - 2 * i), fadeSamples * fadeSamples * fadeSamples)

\* FADE_CURVE_OUT[Math.floor(i * scale)] || 0
FadeOutGain(i, fadeSamples) ==
  LET sm == Smoothstep(i, fadeSamples) IN Rat(sm.den - sm.num, sm.den)

\* FADE_CURVE_IN[Math.floor(i * scale)] || 1: a gain of 0 is replaced by 1
FadeInGain(i, fadeSamples) ==
  LET sm == Smoothstep(i, fadeSamples) IN IF sm.num = 0 THEN Rat(1, 1) ELSE sm

\* data[start + i] *= gain, for the samples of the fade that exist
ApplyGains(out, start, fadeSamples, fadeOut) ==
  [out EXCEPT !.data =
     [k \in DOMAIN out.data |->
        IF k - 1 >= start /\ k - 1 < start + fadeSamples
        THEN LET g == IF fadeOut THEN FadeOutGain(k - 1 - start, fadeSamples)
                      ELSE FadeInGain(k - 1 - start, fadeSamples)
             IN (out.data[k] * g.num) \div g.den
        ELSE out.data[k]]]

applyFadeOut(out, pos, sampleRate) ==
  ApplyGains(out, Max(0, pos - fadeSamplesOf(sampleRate)), fadeSamplesOf(sampleRate), TRUE)

applyFadeIn(out, pos, sampleRate) ==
  ApplyGains(out, pos, fadeSamplesOf(sampleRate), FALSE)

\* if (breaks.length === 0): output.set(input); applyFadeOut(output, input.length)
StretchNoBreaks(input, targetSamples, sampleRate) ==
  [out |-> applyFadeOut(SetSubarray(NewBuffer(targetSamples), input, 0, Len(input), 0),
                        Len(input), sampleRate),
   threw |-> Len(input) > targetSamples,
   gaps |-> << >>, skipped |-> << >>]

\* One turn of for (const bp of breaks)
StretchBreakStep(st, bp, input, silencePerBreak, sampleRate) ==
  LET segLen == bp.pos - st.readPos
      fits == segLen > 0 /\ st.writePos + segLen <= st.out.len
      out1 == IF fits
              THEN SetSubarray(st.out, input, st.readPos, bp.pos, st.writePos)
              ELSE st.out
      writePos1 == IF fits THEN st.writePos + segLen ELSE st.writePos
      out2 == applyFadeOut(out1, writePos1, sampleRate)
      writePos2 == writePos1 + silencePerBreak
      resume == writePos2 < st.out.len /\ bp.pos < Len(input)
      copyLen == Min(FadeInCopySamples,
                     Min(Len(input) - bp.pos, st.out.len - writePos2))
      out3 == IF resume
              THEN applyFadeIn(SetSubarray(out2, input, bp.pos, bp.pos + copyLen,
                                           writePos2),
                               writePos2, sampleRate)
              ELSE out2
  IN [out |-> out3, readPos |-> bp.pos, writePos |-> writePos2,
      gaps |-> Append(st.gaps, [at |-> writePos1, len |-> silencePerBreak]),
      skipped |-> IF segLen > 0 /\ ~fits THEN Append(st.skipped, bp.pos)
                  ELSE st.skipped]

RECURSIVE StretchBreakLoop(_, _, _, _, _, _)
StretchBreakLoop(st, breaks, i, input, silencePerBreak, sampleRate) ==
  IF i > Len(breaks) THEN st
  ELSE StretchBreakLoop(StretchBreakStep(st, breaks[i], input, silencePerBreak,
                                         sampleRate),
                        breaks, i + 1, input, silencePerBreak, sampleRate)

\* The channel loop of the breaks path, with "Copy remaining audio"
StretchWithBreaks(input, breaks, silenceNeededSamples, targetSamples, sampleRate) ==
  LET silencePerBreak == FloorDiv(silenceNeededSamples, Len(breaks))
      st == StretchBreakLoop([out |-> NewBuffer(targetSamples), readPos |-> 0,
                              writePos |-> 0, gaps |-> << >>, skipped |-> << >>],
                             breaks, 1, input, silencePerBreak, sampleRate)
      remaining == Len(input) - st.readPos
      copyLen == Min(remaining, st.out.len - st.writePos)
  IN [out |-> IF remaining > 0 /\ st.writePos < st.out.len
              THEN SetSubarray(st.out, input, st.readPos, st.readPos + copyLen,
                               st.writePos)
              ELSE st.out,
      threw |-> FALSE,
      gaps |-> st.gaps,
      skipped |-> IF remaining > 0 /\ copyLen < remaining
                  THEN Append(st.skipped, st.readPos) ELSE st.skipped]

\* stretchAudioToFitDuration from the decode to the encoding, for a target
\* of targetTicks / TicksPerSecond seconds
StretchAfterDecode(channels, targetTicks, sampleRate) ==
  LET input == channels[1]
      early == AlreadyLongEnough(Len(input) * TicksPerSecond, targetTicks * sampleRate)
      silenceNeededSamples == FloorDiv(targetTicks * sampleRate, TicksPerSecond)
                              - Len(input)
      breaks == findBreaksFast(input, sampleRate)
      targetSamples == CeilDiv(targetTicks * sampleRate, TicksPerSecond)
      perChannel == [c \in 1..Len(channels) |->
                       IF Len(breaks) = 0
                       THEN StretchNoBreaks(channels[c], targetSamples, sampleRate)
                       ELSE StretchWithBreaks(channels[c], breaks, silenceNeededSamples,
                                              targetSamples, sampleRate)]
  IN IF early
     THEN [path |-> "alreadyLongEnough", decodedLen |-> Len(input),
           input |-> input, threw |-> FALSE]
     ELSE [path |-> IF Len(breaks) = 0 THEN "noBreaks" ELSE "breaks",
           decodedLen |-> Len(input), input |-> input, breaks |-> breaks,
           silenceNeededSamples |-> silenceNeededSamples,
           targetSamples |-> targetSamples,
           out |-> [c \in 1..Len(channels) |-> perChannel[c].out],
           gaps |-> perChannel[1].gaps,
           skipped |-> perChannel[1].skipped,
           threw |-> perChannel[1].threw]

\* A decoded clip of the stretcher: a guard margin of loud samples, then
\* windows that are loud or quiet, then the closing guard margin.  Loud
\* samples are above the threshold and quiet ones below; none is zero.
QuietRunStarts(pattern) ==
  {w \in 1..MaxWindows : pattern[w] /\ (w = 1 \/ ~pattern[w - 1])}
WindowPatterns ==
  {pattern \in [1..MaxWindows -> BOOLEAN] :
     Cardinality(QuietRunStarts(pattern)) <= MaxQuietRuns}
PatternLength(sampleRate) ==
  2 * edgeOffsetOf(sampleRate) + MaxWindows * coarseWindowOf(sampleRate)
PatternSample(pattern, k, sampleRate) ==
  LET w == (k - 1 - edgeOffsetOf(sampleRate)) \div coarseWindowOf(sampleRate) + 1
      quiet == k > edgeOffsetOf(sampleRate)
               /\ w <= MaxWindows /\ pattern[w]
  IN IF quiet THEN 27 * ((k % 8) + 1) ELSE 2700 + 27 * k
PatternChannel(pattern, sampleRate) ==
  [k \in 1..PatternLength(sampleRate) |-> PatternSample(pattern, k, sampleRate)]

\* ------------------------------------------------ concatenateWithSilenceGaps
\* const targetDuration = 60
ConcatTargetDuration == 60

\* What the three decodes produce: the context's sample rate, and the length
\* in samples and the channel count of each clip.  At 1 Hz, clips of whole
\* seconds; at 10 Hz, three equal mono clips (100 samples each in the
\* repository's test).
ClipSeconds == {5, 10, 20, 25}
TestRateClipLengths == {50, 100, 195, 199, 205}
ConcatDecodes ==
  {[rate |-> 1, lens |-> l, ncs |-> c] :
     l \in [1..3 -> ClipSeconds], c \in [1..3 -> 1..MaxChannels]}
  \cup {[rate |-> 10, lens |-> <<n, n, n>>, ncs |-> <<1, 1, 1>>] :
          n \in TestRateClipLengths}

\* Mutant of remainingTimeOf: no floor of one second
remainingTimeNoFloor(totalClipSamples, rate) ==
  ConcatTargetDuration * rate - totalClipSamples

\* Math.max(1, targetDuration - totalClipDuration), in samples
remainingTimeOf(totalClipSamples, rate) ==
  Max(1 * rate, ConcatTargetDuration * rate - totalClipSamples)

\* Mutant of WriteBuffer: the write offset advances one sample short of the
\* clip's length
WriteBufferShortAdvance(st, source, numberOfChannels) ==
  LET len == Len(source[1])
      fits == st.writeOffset + len <= st.out[1].len
  IN [out |-> [c \in 1..numberOfChannels |->
                 IF fits /\ ~st.threw
                 THEN SetSubarray(st.out[c], source[Min(c, Len(source))], 0, len,
                                  st.writeOffset)
                 ELSE st.out[c]],
      writeOffset |-> st.writeOffset + len - 1,
      copies |-> Append(st.copies, [at |-> st.writeOffset, len |-> len,
                                    cap |-> st.out[1].len]),
      gaps |-> st.gaps,
      threw |-> st.threw \/ ~fits]

\* writeBuffer(source): one set() per output channel at writeOffset; a set()
\* that does not fit throws a RangeError
WriteBuffer(st, source, numberOfChannels) ==
  LET len == Len(source[1])
      fits == st.writeOffset + len <= st.out[1].len
  IN [out |-> [c \in 1..numberOfChannels |->
                 IF fits /\ ~st.threw
                 THEN SetSubarray(st.out[c], source[Min(c, Len(source))], 0, len,
                                  st.writeOffset)
                 ELSE st.out[c]],
      writeOffset |-> st.writeOffset + len,
      copies |-> Append(st.copies, [at |-> st.writeOffset, len |-> len,
                                    cap |-> st.out[1].len]),
      gaps |-> st.gaps,
      threw |-> st.threw \/ ~fits]

\* writeSilence(seconds): writeOffset += Math.floor(seconds * sampleRate),
\* seconds = remainingTime / 2
WriteSilence(st, remainingSamples) ==
  [st EXCEPT !.writeOffset = st.writeOffset + FloorDiv(remainingSamples, 2),
             !.gaps = Append(st.gaps, FloorDiv(remainingSamples, 2))]

ConcatAfterDecode(intro, middle, outro, rate) ==
  LET numberOfChannels == Max(Len(intro), Max(Len(middle), Len(outro)))
      totalClipSamples == Len(intro[1]) + Len(middle[1]) + Len(outro[1])
      remaining == remainingTimeOf(totalClipSamples, rate)
      \* Math.ceil((totalClipDuration + gapDuration * 2) * sampleRate)
      outputLength == CeilDiv((totalClipSamples + remaining) * rate, rate)
      s0 == [out |-> [c \in 1..numberOfChannels |-> NewBuffer(outputLength)],
             writeOffset |-> 0, copies |-> << >>, gaps |-> << >>, threw |-> FALSE]
      s1 == WriteBuffer(s0, intro, numberOfChannels)
      s2 == WriteSilence(s1, remaining)
      s3 == WriteBuffer(s2, middle, numberOfChannels)
      s4 == WriteSilence(s3, remaining)
      s5 == WriteBuffer(s4, outro, numberOfChannels)
  IN s5 @@ [path |-> "concat", rate |-> rate,
            totalClipSamples |-> totalClipSamples, remaining |-> remaining,
            clips |-> <<intro, middle, outro>>]

\* A decoded clip: sample k of channel ch of clip number n, all distinct.
ClipChannels(n, nc, len) == [ch \in 1..nc |-> [k \in 1..len |-> 3000 * n + 300 * ch + k]]

\* ------------------------------------------------------------ pacingEngine
\* Durations of the pacing engine are in tenths of a second; a duration that
\* is not a whole number of tenths is the fraction num / den of a tenth.
MaxAtoms == 3
MaxBudget == 40

\* MIN_BREAK_SECONDS = 0.1 and MAX_BREAK_SECONDS = 3.0, in tenths of a second
MIN_BREAK_TENTHS == 1
MAX_BREAK_TENTHS == 30
WEIGHT_COMMA == 1
WEIGHT_SENTENCE == 3
WEIGHT_PARAGRAPH == 5

PunctuationTypes == {"none", "comma", "sentenceEnd", "paragraph"}

getPunctuationWeight(type) ==
  CASE type = "comma" -> WEIGHT_COMMA
    [] type = "sentenceEnd" -> WEIGHT_SENTENCE
    [] type = "paragraph" -> WEIGHT_PARAGRAPH
    [] type = "none" -> 0

\* The atoms distributeSilence reads: punctuation type and weight
AtomOf(type) == [punctuation |-> type, weight |-> getPunctuationWeight(type)]
AtomSeqs ==
  UNION { [1..n -> {AtomOf(t) : t \in PunctuationTypes}] : n \in 0..MaxAtoms }

\* The silence budgets handed to distributeSilence, in tenths of a second
\* (calculatePacing passes Math.max(0, ...) * silenceSafetyBuffer)
SilenceBudgets == 0..MaxBudget

RECURSIVE SumWeights(_, _)
SumWeights(atoms, n) == IF n = 0 THEN 0 ELSE atoms[n].weight + SumWeights(atoms, n - 1)

\* Mutant of totalWeightOf: the last atom's weight is counted too
totalWeightAll(atoms) == SumWeights(atoms, Len(atoms))

\* atoms.length > 1 ? atoms.slice(0, -1).reduce((sum, a) => sum + a.weight, 0) : 0
totalWeightOf(atoms) ==
  IF Len(atoms) > 1 THEN SumWeights(atoms, Len(atoms) - 1) ELSE 0

\* totalWeight > 0 ? silenceBudget / totalWeight : 0
timePerUnitOf(silenceBudget, totalWeight) ==
  IF totalWeight > 0 THEN Rat(silenceBudget, totalWeight) ELSE RatZero

silenceAfterOf(atoms, i, timePerUnit) ==
  LET isLast == i = Len(atoms)
      product == Rat(atoms[i].weight * timePerUnit.num, timePerUnit.den)
  IN IF ~isLast /\ atoms[i].weight > 0 /\ timePerUnit.num > 0
     THEN IF RatLess(product, Rat(MIN_BREAK_TENTHS, 1)) THEN RatZero ELSE product
     ELSE RatZero

distributeSilence(atoms, silenceBudget) ==
  LET timePerUnit == timePerUnitOf(silenceBudget, totalWeightOf(atoms))
  IN [i \in 1..Len(atoms) |->
        atoms[i] @@ [silenceAfter |-> silenceAfterOf(atoms, i, timePerUnit)]]

\* breakDuration.toFixed(1): the number of tenths nearest to the duration,
\* the larger one of two equally near
ToFixedTenths(d) == (2 * d.num + d.den) \div (2 * d.den)

\* Math.min(remaining, config.maxBreakSeconds)
breakDurationOf(remaining) ==
  IF RatLess(Rat(MAX_BREAK_TENTHS, 1), remaining)
  THEN Rat(MAX_BREAK_TENTHS, 1) ELSE remaining

\* while (remaining > config.minBreakSeconds) { ... remaining -= breakDuration }
\* The tags emitted, each with its duration and the tenths it prints.
RECURSIVE formatBreakTagsFrom(_)
formatBreakTagsFrom(remaining) ==
  IF RatLess(Rat(MIN_BREAK_TENTHS, 1), remaining)
  THEN LET breakDuration == breakDurationOf(remaining)
       IN << [duration |-> breakDuration, time |-> ToFixedTenths(breakDuration)] >>
          \o formatBreakTagsFrom(RatSub(remaining, breakDuration))
  ELSE << >>

formatBreakTags(totalSeconds) == formatBreakTagsFrom(totalSeconds)

\* buildSSML: the break tags that follow each atom's text and punctuation
buildSSML(atoms) ==
  [i \in 1..Len(atoms) |->
     IF atoms[i].silenceAfter.num > 0
     THEN formatBreakTags(atoms[i].silenceAfter)
     ELSE << >>]

\* ------------------------------------------------ characterAlignmentToWords
MaxChars == 5

\* The characters of an alignment response; character i is spoken from tick
\* i - 1 to tick i.
Characters == {"b", "r", "e", "a", "k", " ", "<"}
CharacterSeqs == UNION { [1..n -> Characters] : n \in 0..MaxChars }
StartTimeOf(i) == i - 1
EndTimeOf(i) == i

\* /\s/.test(char)
IsWhitespace(char) == char = " "

\* cleaned.includes('break')
IncludesBreak(word) ==
  \E i \in 1..(Len(word) - 4) : SubSeq(word, i, i + 4) = <<"b", "r", "e", "a", "k">>

\* pushWord(): the word is dropped when empty, when it starts with '<' or when
\* it includes 'break'; currentWord is emptied either way
pushWord(st) ==
  IF st.currentWord = << >> THEN st
  ELSE IF st.currentWord[1] = "<" \/ IncludesBreak(st.currentWord)
       THEN [st EXCEPT !.currentWord = << >>]
       ELSE [st EXCEPT !.words = Append(st.words,
                                        [word |-> st.currentWord,
                                         startTime |-> st.wordStartTime,
                                         endTime |-> st.wordEndTime]),
                       !.currentWord = << >>]

RECURSIVE characterAlignmentLoop(_, _, _)
characterAlignmentLoop(characters, i, st) ==
  IF i > Len(characters) THEN pushWord(st)
  ELSE IF IsWhitespace(characters[i])
       THEN characterAlignmentLoop(characters, i + 1, pushWord(st))
       ELSE characterAlignmentLoop(characters, i + 1,
              [st EXCEPT !.wordStartTime = IF st.currentWord = << >>
                                           THEN StartTimeOf(i) ELSE @,
                         !.currentWord = Append(@, characters[i]),
                         !.wordEndTime = EndTimeOf(i)])

characterAlignmentToWords(characters) ==
  characterAlignmentLoop(characters, 1,
    [words |-> << >>, currentWord |-> << >>, wordStartTime |-> 0,
     wordEndTime |-> 0]).words

\* ------------------------------------------------- calculateTargetWordCount
MaxDuration == 125
TARGET_WORDS_PER_MINUTE == 28
SecondsPerMinute == 60

\* The durations a word count is asked for, in whole seconds
DurationSeconds == 0..MaxDuration

\* Math.round(x) for x = num / den >= 0: floor(x + 1/2)
MathRound(num, den) == (2 * num + den) \div (2 * den)

\* Mutant of calculateTargetWordCount: the product is truncated
calculateTargetWordCountTrunc(targetDurationSeconds) ==
  (targetDurationSeconds * TARGET_WORDS_PER_MINUTE) \div SecondsPerMinute

\* Math.round((targetDurationSeconds / 60.0) * TARGET_WORDS_PER_MINUTE)
calculateTargetWordCount(targetDurationSeconds) ==
  MathRound(targetDurationSeconds * TARGET_WORDS_PER_MINUTE, SecondsPerMinute)

\* ------------------------------------------------------------ encodeWavFast
\* (x * 32767) | 0: the product truncated toward zero (the samples of the
\* model keep it inside 32 bits)
TruncDiv(a, b) == IF a >= 0 THEN a \div b ELSE 0 - ((0 - a) \div b)

\* Math.max(-32768, Math.min(32767, (ch[i] * 32767) | 0))
encodeWavFastSample(s) ==
  Max(0 - 32768, Min(32767, TruncDiv(s * 32767, FloatOne)))

\* The WAV encoders: audioBufferToWav of apiOptimized and of freeTierAudio,
\* encodeWavFast of the audio processor
Encoders == {"apiOptimized.audioBufferToWav", "freeTierAudio.audioBufferToWav",
             "audioProcessor.encodeWavFast"}

EncodeSample(encoder, s) ==
  IF encoder = "audioProcessor.encodeWavFast" THEN encodeWavFastSample(s)
  ELSE ToInt16(s)

\* Float samples handed to an encoder, in units of 1 / 32768: around -1.0,
\* around 0, around +1.0 and out of range
FloatSamples ==
  {0 - 2 * FloatOne, 0 - FloatOne - 1, 0 - FloatOne, 1 - FloatOne,
   0 - (FloatOne \div 2), 0 - 2, 0 - 1, 0, 1, 2, FloatOne \div 2,
   FloatOne - 1, FloatOne, FloatOne + 1, 2 * FloatOne}

\* ----------------------------------------------------------------- atomizeText
MaxTextLen == 4

\* The characters of a script: a letter, a space, the punctuation marks
TextCharacters == {"a", " ", ",", ".", "?", "!", "\n"}
Texts == UNION { [1..n -> TextCharacters] : n \in 0..MaxTextLen }

\* [,.?!\n]
IsPunctuation(ch) == ch \in {",", ".", "?", "!", "\n"}
Includes(str, ch) == \E i \in 1..Len(str) : str[i] = ch

\* Mutant of classifyPunctuation: the sentence-ending marks are looked for
\* before the line break
classifyPunctuationSentenceFirst(punct) ==
  IF Len(punct) = 0 THEN [type |-> "none", char |-> << >>]
  ELSE IF Includes(punct, ".") \/ Includes(punct, "?") \/ Includes(punct, "!")
  THEN [type |-> "sentenceEnd", char |-> <<punct[1]>>]
  ELSE IF Includes(punct, "\n") THEN [type |-> "paragraph", char |-> punct]
  ELSE IF Includes(punct, ",") THEN [type |-> "comma", char |-> <<",">>]
  ELSE [type |-> "none", char |-> << >>]

classifyPunctuation(punct) ==
  IF Len(punct) = 0 THEN [type |-> "none", char |-> << >>]
  ELSE IF Includes(punct, "\n") THEN [type |-> "paragraph", char |-> punct]
  ELSE IF Includes(punct, ".") \/ Includes(punct, "?") \/ Includes(punct, "!")
  THEN [type |-> "sentenceEnd", char |-> <<punct[1]>>]
  ELSE IF Includes(punct, ",") THEN [type |-> "comma", char |-> <<",">>]
  ELSE [type |-> "none", char |-> << >>]

\* String.prototype.trim()
RECURSIVE TrimStart(_)
TrimStart(str) ==
  IF Len(str) > 0 /\ str[1] = " " THEN TrimStart(Tail(str)) ELSE str
RECURSIVE TrimEnd(_)
TrimEnd(str) ==
  IF Len(str) > 0 /\ str[Len(str)] = " "
  THEN TrimEnd(SubSeq(str, 1, Len(str) - 1)) ELSE str
Trim(str) == TrimEnd(TrimStart(str))

\* The end of the longest run of characters from position i on that are
\* (or are not) punctuation: the greedy + and * of the regular expression
RECURSIVE RunEnd(_, _, _)
RunEnd(text, i, punct) ==
  IF i <= Len(text) /\ IsPunctuation(text[i]) = punct
  THEN RunEnd(text, i + 1, punct) ELSE i

\* while ((match = regex.exec(text)) !== null), regex.lastIndex = i - 1
RECURSIVE atomizeFrom(_, _, _)
atomizeFrom(text, i, atoms) ==
  IF i > Len(text) THEN atoms
  ELSE IF IsPunctuation(text[i]) THEN atomizeFrom(text, i + 1, atoms)
  ELSE LET contentEnd == RunEnd(text, i, FALSE)
           punctEnd == RunEnd(text, contentEnd, TRUE)
           content == Trim(SubSeq(text, i, contentEnd - 1))
           punct == SubSeq(text, contentEnd, punctEnd - 1)
           class == classifyPunctuation(punct)
       IN atomizeFrom(text, punctEnd,
            IF Len(content) = 0 THEN atoms
            ELSE Append(atoms, [text |-> content,
                                punctuation |-> class.type,
                                punctuationChar |-> class.char,
                                weight |-> getPunctuationWeight(class.type)]))

atomizeText(text) == atomizeFrom(text, 1, << >>)

\* ---------------------------------------------------------------- useAppStore
\* The clock counts ticks; a day has TicksPerDay of them.
TicksPerDay == 2
MaxNow == 5
MaxSessionsToday == 2
maxSessions == 1

UserTiers == {"none", "free", "premium"}

\* new Date(new Date().setHours(24, 0, 0, 0)): the next midnight
NextMidnight(now) == ((now \div TicksPerDay) + 1) * TicksPerDay

getDefaultDailyLimit(now) ==
  [canMeditate |-> TRUE, sessionsToday |-> 0, maxSessions |-> maxSessions,
   nextResetTime |-> NextMidnight(now)]

\* new Date() > new Date(lastReset)
LimitExpired(now, dailyLimit) == now > dailyLimit.nextResetTime

\* ------------------------------------------------------------ fadeAudioVolume
\* Volumes are exact fractions, kept in lowest terms.
MaxFadeSteps == 4
VolumeGrid == 4
DEFAULT_STEP_MS == 50

RECURSIVE Gcd(_, _)
Gcd(a, b) == IF b = 0 THEN a ELSE Gcd(b, a % b)

Abs(n) == IF n < 0 THEN 0 - n ELSE n

RatNorm(a) ==
  IF a.num = 0 THEN RatZero
  ELSE LET g == Gcd(Abs(a.num), a.den) IN Rat(a.num \div g, a.den \div g)

RatOne == Rat(1, 1)
RatTimes(a, k) == RatNorm(Rat(a.num * k, a.den))
RatOver(a, k) == RatNorm(Rat(a.num, a.den * k))

\* Mutant of ClampVolume: the volume is not clamped.
ClampVolumeNone(v) == RatNorm(v)

\* Math.max(0, Math.min(1, v))
ClampVolume(v) ==
  IF RatLess(v, RatZero) THEN RatZero
  ELSE IF RatLess(RatOne, v) THEN RatOne
  ELSE RatNorm(v)

\* Math.max(1, Math.ceil(durationMs / DEFAULT_STEP_MS))
totalStepsOf(durationMs) == Max(1, CeilDiv(durationMs, DEFAULT_STEP_MS))

NoInterval ==
  [active |-> FALSE, startingVolume |-> RatZero, volumeStep |-> RatZero,
   currentStep |-> 0, totalSteps |-> 0, clampedTarget |-> RatZero]

\* The synchronous part of fadeAudioVolume(audio, toVolume, durationMs): the
\* element's volume after it, whether the promise is already resolved, and the
\* interval it has set.
fadeAudioVolume(volume, toVolume, durationMs) ==
  LET clampedTarget == ClampVolume(toVolume)
      delta == RatNorm(RatSub(clampedTarget, volume))
      totalSteps == totalStepsOf(durationMs)
  IN IF durationMs <= 0
     THEN [volume |-> clampedTarget, resolved |-> TRUE, interval |-> NoInterval]
     ELSE IF delta.num = 0
     THEN [volume |-> volume, resolved |-> TRUE, interval |-> NoInterval]
     ELSE [volume |-> volume, resolved |-> FALSE,
           interval |-> [active |-> TRUE, startingVolume |-> volume,
                         volumeStep |-> RatOver(delta, totalSteps),
                         currentStep |-> 0, totalSteps |-> totalSteps,
                         clampedTarget |-> clampedTarget]]

\* One run of the setInterval callback of fadeAudioVolume
fadeIntervalTick(iv) ==
  LET currentStep == iv.currentStep + 1
  IN IF currentStep >= iv.totalSteps
     THEN [volume |-> iv.clampedTarget, resolved |-> TRUE,
           interval |-> [iv EXCEPT !.currentStep = currentStep,
                                   !.active = FALSE]]
     ELSE [volume |-> ClampVolume(RatAdd(iv.startingVolume,
                                         RatTimes(iv.volumeStep, currentStep))),
           resolved |-> FALSE,
           interval |-> [iv EXCEPT !.currentStep = currentStep]]

\* The calls of fadeAudioVolume explored on their own
FadeVolumes == {RatNorm(Rat(k, VolumeGrid)) : k \in 0..VolumeGrid}
FadeTargets == {RatNorm(Rat(k, VolumeGrid)) : k \in (0 - 1)..(VolumeGrid + 1)}
                 \cup {Rat(5, 1)}
FadeDurations ==
  {(k * DEFAULT_STEP_MS) \div 2 : k \in 0..(2 * MaxFadeSteps)}

\* ----------------------------------------------------------- MeditationScreen
\* Time is counted in ticks of DEFAULT_STEP_MS, the period of a fade interval.
MaxPresses == 2
ModelDuration == 4
SOFT_START_COUNTDOWN_SECONDS == 3
AUDIO_FADE_IN_MS == 1400
AUDIO_FADE_OUT_MS == 450
FADE_DURATION == 2
MsPerSecond == 1000
ProgressIntervalMs == 200

BASE_MUSIC_VOLUME == Rat(3, 20)
TicksOf(ms) == ms \div DEFAULT_STEP_MS
CountdownIntervalTicks == TicksOf(MsPerSecond)
SoftStartTicks == TicksOf(SOFT_START_COUNTDOWN_SECONDS * MsPerSecond)
ProgressIntervalTicks == TicksOf(ProgressIntervalMs)
DurationTicks == TicksOf(ModelDuration * MsPerSecond)
OnCompleteDelayTicks == TicksOf(MsPerSecond)

NoTimer == 0 - 1
NoThen == [k |-> "none", id |-> 0, vm |-> FALSE]

\* A freshly mounted screen: useState and useRef initial values, the music
\* element of the mount effect, the voice element when a voiceAudioUrl is given
MountedScreen(hasVoice) ==
  [mounted |-> TRUE,
   isPlaying |-> FALSE, currentTicks |-> 0, countdownSeconds |-> 0,
   isMusicMuted |-> FALSE, isVoiceMuted |-> FALSE,
   countdownTimer |-> NoTimer,
   startPlaybackTimer |-> [left |-> NoTimer, mm |-> FALSE, vm |-> FALSE],
   imageSwapTimer |-> FALSE, timer |-> NoTimer, onCompleteTimer |-> NoTimer,
   playbackActionId |-> 0, playStart |-> FALSE, elapsed |-> 0,
   music |-> [present |-> TRUE, volume |-> BASE_MUSIC_VOLUME, paused |-> TRUE,
              plays |-> 0],
   voice |-> [present |-> hasVoice, volume |-> RatOne, paused |-> TRUE,
              plays |-> 0],
   fades |-> << >>, tasks |-> {},
   presses |-> 0, firstStart |-> "none", since |-> 0, pauseDone |-> FALSE,
   completed |-> 0]

\* clearPreparationTimers
clearPreparationTimers(s) ==
  [s EXCEPT !.countdownTimer = NoTimer, !.startPlaybackTimer.left = NoTimer]

\* The effect on [isPlaying, isMusicMuted, isVoiceMuted, ...] after a render:
\* cleanup of the previous run, then the new run
PlayingEffect(s) ==
  IF s.isPlaying
  THEN [s EXCEPT !.playStart = TRUE, !.timer = ProgressIntervalTicks]
  ELSE [s EXCEPT !.playStart = FALSE, !.timer = NoTimer]

\* void fadeAudioVolume(el, toVolume, durationMs), with the continuation that
\* awaits it (NoThen when nothing does); the continuation of an already
\* resolved promise is run by the caller
StartFade(s, el, toVolume, durationMs, then) ==
  LET r == fadeAudioVolume(s[el].volume, toVolume, durationMs)
  IN [s EXCEPT ![el].volume = r.volume,
               !.fades = IF r.resolved THEN @
                         ELSE Append(@, [el |-> el, iv |-> r.interval,
                                         due |-> FALSE, then |-> then])]

FadeResolvesAtOnce(s, el, toVolume, durationMs) ==
  fadeAudioVolume(s[el].volume, toVolume, durationMs).resolved

\* pausePlaybackNow has run to its end
PauseComplete(s, id) ==
  IF id = s.playbackActionId THEN [s EXCEPT !.pauseDone = TRUE] ELSE s

\* pausePlaybackNow from activeVoice on
PauseAfterVoice(s, id) == PauseComplete([s EXCEPT !.voice.paused = TRUE], id)

PauseVoicePart(s, id, vm) ==
  IF ~s.voice.present THEN PauseComplete(s, id)
  ELSE IF vm THEN PauseAfterVoice(s, id)
  ELSE IF FadeResolvesAtOnce(s, "voice", RatZero, AUDIO_FADE_OUT_MS)
  THEN PauseAfterVoice(StartFade(s, "voice", RatZero, AUDIO_FADE_OUT_MS,
                                 NoThen), id)
  ELSE StartFade(s, "voice", RatZero, AUDIO_FADE_OUT_MS,
                 [k |-> "pauseVoice", id |-> id, vm |-> vm])

\* pausePlaybackNow from activeMusic.pause() on
PauseAfterMusic(s, id, vm) ==
  PauseVoicePart([s EXCEPT !.music.paused = TRUE], id, vm)

\* The .then(() => ref.current?.pause()) of the end of the meditation
EndPause(s, el) == [s EXCEPT ![el].paused = TRUE]

\* The code that waits for a fade, run once it has resolved
RunThen(s, then) ==
  IF then.k = "pauseMusic" THEN PauseAfterMusic(s, then.id, then.vm)
  ELSE IF then.k = "pauseVoice" THEN PauseAfterVoice(s, then.id)
  ELSE IF then.k = "endMusic" THEN EndPause(s, "music")
  ELSE IF then.k = "endVoice" THEN EndPause(s, "voice")
  ELSE s

\* startPlaybackNow up to its first await; mm, vm are the mute flags of the
\* render that created the callback
startPlaybackNow(s, mm, vm) ==
  LET id == s.playbackActionId + 1
      s1 == [s EXCEPT !.playbackActionId = id,
                      !.isPlaying = TRUE,
                      !.imageSwapTimer = TRUE,
                      !.pauseDone = FALSE,
                      !.music.volume = IF mm THEN BASE_MUSIC_VOLUME
                                       ELSE RatZero,
                      !.music.paused = FALSE,
                      !.music.plays = @ + 1,
                      !.tasks = @ \cup {[at |-> "music", id |-> id,
                                         mm |-> mm, vm |-> vm]}]
  IN IF s.isPlaying THEN s1 ELSE PlayingEffect(s1)

\* startPlaybackNow after await musicAudioRef.current.play()
StartAfterMusicPlay(s, t) ==
  LET s1 == IF ~t.mm /\ t.id = s.playbackActionId
            THEN StartFade(s, "music", BASE_MUSIC_VOLUME, AUDIO_FADE_IN_MS,
                           NoThen)
            ELSE s
  IN IF s1.voice.present
     THEN [s1 EXCEPT !.voice.volume = IF t.vm THEN RatOne ELSE RatZero,
                     !.voice.paused = FALSE,
                     !.voice.plays = @ + 1,
                     !.tasks = (@ \ {t}) \cup {[t EXCEPT !.at = "voice"]}]
     ELSE [s1 EXCEPT !.tasks = @ \ {t}]

\* startPlaybackNow after await voiceAudioRef.current.play()
StartAfterVoicePlay(s, t) ==
  LET s1 == [s EXCEPT !.tasks = @ \ {t}]
  IN IF ~t.vm /\ t.id = s.playbackActionId
     THEN StartFade(s1, "voice", RatOne, AUDIO_FADE_IN_MS, NoThen)
     ELSE s1

\* pausePlaybackNow up to its first await that has to wait
pausePlaybackNow(s, mm, vm) ==
  LET id == s.playbackActionId + 1
      s1 == [clearPreparationTimers(s) EXCEPT
               !.playbackActionId = id,
               !.countdownSeconds = 0,
               !.imageSwapTimer = FALSE,
               !.isPlaying = FALSE,
               !.playStart = FALSE]
      s2 == IF s.isPlaying THEN PlayingEffect(s1) ELSE s1
  IN IF mm THEN PauseAfterMusic(s2, id, vm)
     ELSE IF FadeResolvesAtOnce(s2, "music", RatZero, AUDIO_FADE_OUT_MS)
     THEN PauseAfterMusic(StartFade(s2, "music", RatZero, AUDIO_FADE_OUT_MS,
                                    NoThen), id, vm)
     ELSE StartFade(s2, "music", RatZero, AUDIO_FADE_OUT_MS,
                    [k |-> "pauseMusic", id |-> id, vm |-> vm])

\* beginSoftStart
beginSoftStart(s) ==
  [clearPreparationTimers(s) EXCEPT
     !.countdownSeconds = SOFT_START_COUNTDOWN_SECONDS,
     !.countdownTimer = CountdownIntervalTicks,
     !.startPlaybackTimer = [left |-> SoftStartTicks, mm |-> s.isMusicMuted,
                             vm |-> s.isVoiceMuted],
     !.firstStart = IF @ = "none" THEN "counting" ELSE @]

\* Mutant of CountdownRunning: a running countdown is not looked at.
CountdownRunningNever(s) == FALSE

\* countdownSeconds !== null
CountdownRunning(s) == s.countdownSeconds # 0

\* currentTime <= 0.1
AtStart(s) == s.currentTicks * DEFAULT_STEP_MS * 10 <= MsPerSecond

\* togglePlayback
togglePlayback(s) ==
  IF s.isPlaying THEN pausePlaybackNow(s, s.isMusicMuted, s.isVoiceMuted)
  ELSE IF CountdownRunning(s) THEN s
  ELSE IF AtStart(s) THEN beginSoftStart(s)
  ELSE startPlaybackNow(s, s.isMusicMuted, s.isVoiceMuted)

\* The body of the 200 ms interval of the playing effect
ProgressTick(s) ==
  LET clampedTime == Min(s.elapsed, DurationTicks)
      timeRemaining == DurationTicks - clampedTime
      fadeTicks == TicksOf(FADE_DURATION * MsPerSecond)
      s1 == [s EXCEPT !.currentTicks = clampedTime]
      s2 == IF timeRemaining <= fadeTicks /\ timeRemaining > 0
               /\ ~s.isMusicMuted
            THEN [s1 EXCEPT !.music.volume =
                    RatOver(RatTimes(BASE_MUSIC_VOLUME, timeRemaining),
                            fadeTicks)]
            ELSE s1
      s3 == IF timeRemaining <= TicksOf(MsPerSecond) /\ timeRemaining > 0
               /\ s.voice.present /\ ~s.isVoiceMuted
            THEN [s2 EXCEPT !.voice.volume =
                    RatNorm(Rat(timeRemaining, TicksOf(MsPerSecond)))]
            ELSE s2
      s4 == [clearPreparationTimers(s3) EXCEPT
               !.isPlaying = FALSE, !.countdownSeconds = 0,
               !.imageSwapTimer = FALSE]
      s5 == IF s.isMusicMuted THEN EndPause(s4, "music")
            ELSE IF FadeResolvesAtOnce(s4, "music", RatZero, AUDIO_FADE_OUT_MS)
            THEN EndPause(StartFade(s4, "music", RatZero, AUDIO_FADE_OUT_MS,
                                    NoThen), "music")
            ELSE StartFade(s4, "music", RatZero, AUDIO_FADE_OUT_MS,
                           [NoThen EXCEPT !.k = "endMusic"])
      s6 == IF ~s.voice.present THEN s5
            ELSE IF s.isVoiceMuted THEN EndPause(s5, "voice")
            ELSE IF FadeResolvesAtOnce(s5, "voice", RatZero, AUDIO_FADE_OUT_MS)
            THEN EndPause(StartFade(s5, "voice", RatZero, AUDIO_FADE_OUT_MS,
                                    NoThen), "voice")
            ELSE StartFade(s5, "voice", RatZero, AUDIO_FADE_OUT_MS,
                           [NoThen EXCEPT !.k = "endVoice"])
  IN IF s.elapsed >= DurationTicks
     THEN [PlayingEffect(s6) EXCEPT !.elapsed = 0,
                                    !.onCompleteTimer = OnCompleteDelayTicks]
     ELSE [s3 EXCEPT !.timer = ProgressIntervalTicks]

\* One run of a fade's interval callback on the screen's element
ScreenFadeTick(s, i) ==
  LET f == s.fades[i]
      r == fadeIntervalTick(f.iv)
      s1 == [s EXCEPT ![f.el].volume = r.volume]
  IN IF r.resolved
     THEN RunThen([s1 EXCEPT !.fades =
                     SubSeq(@, 1, i - 1) \o SubSeq(@, i + 1, Len(@))],
                  f.then)
     ELSE [s1 EXCEPT !.fades[i].iv = r.interval, !.fades[i].due = FALSE]

TimerTicksDown(left) == IF left > 0 THEN left - 1 ELSE left

\* DEFAULT_STEP_MS pass
ScreenAfterTick(s) ==
  [s EXCEPT !.countdownTimer = TimerTicksDown(@),
            !.startPlaybackTimer.left = TimerTicksDown(@),
            !.timer = TimerTicksDown(@),
            !.onCompleteTimer = TimerTicksDown(@),
            !.fades = [i \in 1..Len(@) |-> [@[i] EXCEPT !.due = TRUE]],
            !.elapsed = IF s.playStart THEN @ + 1 ELSE @,
            !.since = IF s.firstStart = "counting" THEN @ + 1 ELSE @]

ScreenTimerDue(s) ==
  \/ s.countdownTimer = 0
  \/ s.startPlaybackTimer.left = 0
  \/ s.timer = 0
  \/ s.onCompleteTimer = 0
  \/ \E i \in 1..Len(s.fades) : s.fades[i].due

ScreenTimerPending(s) ==
  \/ s.countdownTimer > 0
  \/ s.startPlaybackTimer.left > 0
  \/ s.timer > 0
  \/ s.onCompleteTimer > 0
  \/ Len(s.fades) > 0

\* ----------------------------------------------------------- ProcessingScreen
\* Time is counted in ticks of ProcessingTickMs.
ProcessingTickMs == 10
CompletionDelayMs == 800
FallbackCompleteExtraMs == 500
ProgressIntervalCount == 50
ProgressIncrement == 2
ProgressFull == 100

processingSteps ==
  << [text |-> "Listening to your thoughts...", duration |-> 2000],
     [text |-> "Crafting your meditation...", duration |-> 2500],
     [text |-> "Bringing your meditation to life...", duration |-> 2500],
     [text |-> "Perfecting the timing...", duration |-> 1500] >>

\* The values of the currentStep prop; "none" is undefined
ExternalSteps ==
  {"none", "Processing...", "Crafting your meditation...",
   "Perfecting the timing...", "Ready!", "Let's get started!"}

ProcessingTicksOf(ms) == ms \div ProcessingTickMs

\* The start of step index in the fallback schedule, in ms
RECURSIVE StepStartMs(_)
StepStartMs(index) ==
  IF index = 1 THEN 0
  ELSE StepStartMs(index - 1) + processingSteps[index - 1].duration

totalDuration == StepStartMs(Len(processingSteps))
                   + processingSteps[Len(processingSteps)].duration

\* processingSteps.findIndex(s => s.text === externalStep), 0 when not found
FindStepIndex(step) ==
  IF \E i \in 1..Len(processingSteps) : processingSteps[i].text = step
  THEN CHOOSE i \in 1..Len(processingSteps) : processingSteps[i].text = step
  ELSE 0

isCompleteStep(externalStep) ==
  \/ externalStep = "Perfecting the timing..."
  \/ externalStep = "Ready!"
  \/ externalStep = "Let's get started!"

NoFallback ==
  [stepTimers |-> [i \in 1..Len(processingSteps) |-> 0 - 1],
   progressInterval |-> 0 - 1, completeTimer |-> 0 - 1]

\* useState and useRef initial values
ProcessingInitial(externalStep) ==
  [mounted |-> TRUE, externalStep |-> externalStep,
   currentStepIndex |-> 1, progress |-> 0,
   displayText |-> processingSteps[1].text,
   completedRef |-> FALSE, hasStartedRef |-> FALSE,
   timer |-> 0 - 1, timerCleanup |-> FALSE,
   fallback |-> NoFallback, fallbackCleanup |-> FALSE,
   onCompleteCalls |-> 0, completionReceived |-> FALSE]

\* The effect that updates the display text from the external step
DisplayEffect(s) ==
  IF s.externalStep = "none" THEN s
  ELSE LET stepIndex == FindStepIndex(s.externalStep)
           s1 == [s EXCEPT !.displayText = s.externalStep]
       IN IF stepIndex # 0
          THEN [s1 EXCEPT !.currentStepIndex = stepIndex,
                          !.progress = (stepIndex * ProgressFull)
                                         \div Len(processingSteps)]
          ELSE s1

\* The effect that handles completion: its cleanup from the previous run, then
\* the new run
CompletionEffect(s) ==
  LET s1 == IF s.timerCleanup
            THEN [s EXCEPT !.timer = 0 - 1, !.timerCleanup = FALSE]
            ELSE s
      s2 == [s1 EXCEPT !.completionReceived =
                         @ \/ isCompleteStep(s.externalStep)]
  IN IF isCompleteStep(s.externalStep) /\ ~s.completedRef
     THEN [s2 EXCEPT !.completedRef = TRUE,
                     !.progress = ProgressFull,
                     !.timer = ProcessingTicksOf(CompletionDelayMs),
                     !.timerCleanup = TRUE]
     ELSE s2

\* The fallback effect of the demo mode: cleanup, then the new run
FallbackEffect(s) ==
  LET s1 == IF s.fallbackCleanup
            THEN [s EXCEPT !.fallback = NoFallback, !.fallbackCleanup = FALSE]
            ELSE s
  IN IF s.hasStartedRef THEN s1
     ELSE IF s.externalStep # "none" THEN [s1 EXCEPT !.hasStartedRef = TRUE]
     ELSE [s1 EXCEPT
             !.hasStartedRef = TRUE,
             !.fallback =
               [stepTimers |-> [i \in 1..Len(processingSteps) |->
                                  ProcessingTicksOf(StepStartMs(i))],
                progressInterval |->
                  ProcessingTicksOf(totalDuration \div ProgressIntervalCount),
                completeTimer |->
                  ProcessingTicksOf(totalDuration + FallbackCompleteExtraMs)],
             !.fallbackCleanup = TRUE]

\* The effects on [externalStep], in the order of their declaration
ProcessingEffects(s) == FallbackEffect(CompletionEffect(DisplayEffect(s)))

ProcessingTimerDue(s) ==
  \/ s.timer = 0
  \/ \E i \in 1..Len(processingSteps) : s.fallback.stepTimers[i] = 0
  \/ s.fallback.progressInterval = 0
  \/ s.fallback.completeTimer = 0

ProcessingTimerPending(s) ==
  \/ s.timer > 0
  \/ \E i \in 1..Len(processingSteps) : s.fallback.stepTimers[i] > 0
  \/ s.fallback.progressInterval > 0
  \/ s.fallback.completeTimer > 0

\* ------------------------------------------------------------- free-tier clips
NumIntros == 2
NumOutros == 3

IntroClips == 1..NumIntros
OutroClips == 1..NumOutros

\* The userId values; "none" is undefined, which shares one storage key
ClipUsers == {"none", "u1"}

\* localStorage without the used-clip keys; seenIntros and seenOutros record,
\* for the properties, the clips marked used since every clip of the kind had
\* last been used
EmptyClipStorage ==
  [u \in ClipUsers |-> [usedIntros |-> {}, usedOutros |-> {},
                        seenIntros |-> {}, seenOutros |-> {}]]

\* resetUsedClips
resetUsedClips(c, userId) ==
  [c EXCEPT ![userId].usedIntros = {}, ![userId].usedOutros = {}]

\* getAvailableIntros: the clips returned and the storage after the call
getAvailableIntros(c, userId) ==
  IF Cardinality(c[userId].usedIntros) >= Cardinality(IntroClips)
  THEN [clips |-> IntroClips, storage |-> resetUsedClips(c, userId)]
  ELSE [clips |-> IntroClips \ c[userId].usedIntros, storage |-> c]

\* getAvailableOutros: the clips returned and the storage after the call
getAvailableOutros(c, userId) ==
  IF Cardinality(c[userId].usedOutros) >= Cardinality(OutroClips)
  THEN [clips |-> OutroClips, storage |-> resetUsedClips(c, userId)]
  ELSE [clips |-> OutroClips \ c[userId].usedOutros, storage |-> c]

SeenAfter(seen, id, all) == IF seen \cup {id} = all THEN {} ELSE seen \cup {id}

\* markComboUsed
markComboUsed(c, introId, outroId, userId) ==
  [c EXCEPT ![userId].usedIntros = @ \cup {introId},
            ![userId].usedOutros = @ \cup {outroId},
            ![userId].seenIntros = SeenAfter(@, introId, IntroClips),
            ![userId].seenOutros = SeenAfter(@, outroId, OutroClips)]

\* --------------------------------------------------------- createMeditationFast
Url(scheme, kind, n) == [scheme |-> scheme, kind |-> kind, n |-> n]
NullUrl == Url("null", "null", 0)
UndefinedUrl == Url("undefined", "undefined", 0)

SubscriptionTiers == {"free", "premium"}

\* onProgress?.({ step, canStartMeditation, voiceReady, result })
Emit(p, step, canStartMeditation, voiceReady, voiceAudioUrl) ==
  [p EXCEPT !.events = Append(@, [step |-> step,
                                  canStartMeditation |-> canStartMeditation,
                                  voiceReady |-> voiceReady,
                                  voiceAudioUrl |-> voiceAudioUrl])]

\* createMeditationFast up to await transcribeAudio(audioBlob)
createMeditationFast(id, userTier, userId) ==
  Emit([id |-> id, pc |-> "transcribing", tier |-> userTier,
        userId |-> userId, events |-> << >>,
        availableIntros |-> {}, availableOutros |-> {},
        seenIntros |-> {}, seenOutros |-> {},
        introId |-> 0, outroId |-> 0, voiceAudioUrl |-> NullUrl],
       "Preparing your meditation...", FALSE, FALSE, UndefinedUrl)

NoRunning == [id |-> 0, pc |-> "none"]

\* What an awaited call can settle with
Outcomes(p) ==
  IF p.pc = "selecting"
  THEN {[introId |-> i, outroId |-> o] :
          i \in p.availableIntros, o \in p.availableOutros}
  ELSE IF p.pc = "voice" /\ p.tier = "premium"
  THEN {"aligned", "unaligned", "fail"}
  ELSE IF p.pc \in {"transcribing", "middleScript", "script", "voice",
                    "injecting"}
  THEN {"ok", "fail"}
  ELSE {}

Thrown(p) == [p EXCEPT !.pc = "threw"]

\* createFreeTierMeditation up to await selectBestIntroOutro(...)
FreeTierStart(p, c) ==
  LET p1 == Emit(p, "Preparing your meditation...", FALSE, FALSE, UndefinedUrl)
      intros == getAvailableIntros(c, p.userId)
      outros == getAvailableOutros(intros.storage, p.userId)
      p2 == [p1 EXCEPT !.availableIntros = intros.clips,
                       !.availableOutros = outros.clips,
                       !.seenIntros = c[p.userId].seenIntros,
                       !.seenOutros = c[p.userId].seenOutros,
                       !.pc = "selecting"]
  IN [p |-> Emit(p2, "Choosing the perfect tune...", FALSE, FALSE,
                 UndefinedUrl),
      c |-> outros.storage]

\* From the selection to await generateFreeTierMiddleScript(...)
FreeTierSelected(p, c, selection) ==
  [p |-> Emit([p EXCEPT !.introId = selection.introId,
                        !.outroId = selection.outroId,
                        !.pc = "middleScript"],
              "Setting up the space...", FALSE, FALSE, UndefinedUrl),
   c |-> markComboUsed(c, selection.introId, selection.outroId, p.userId)]

IntroUrl(p) == Url("asset", "intro", p.introId)

\* The early start with the intro audio, up to the awaits of the try block
FreeTierEarlyStart(p) ==
  Emit([p EXCEPT !.voiceAudioUrl = IntroUrl(p), !.pc = "voice"],
       "Let's get started!", TRUE, FALSE, IntroUrl(p))

\* Mutant of FreeTierVoiceFailed: the catch block reports nothing.
FreeTierVoiceFailedSilent(p) == [p EXCEPT !.pc = "returned"]

\* The catch block of the free tier, and the return
FreeTierVoiceFailed(p) ==
  Emit([p EXCEPT !.pc = "returned"],
       "Let's get started!", TRUE, TRUE, IntroUrl(p))

\* The end of the try block of the free tier, and the return
FreeTierVoiceReady(p) ==
  LET voiceAudioUrl == Url("blob", "combined", p.id)
  IN Emit([p EXCEPT !.voiceAudioUrl = voiceAudioUrl, !.pc = "returned"],
          "Let's get started!", TRUE, TRUE, voiceAudioUrl)

\* createPremiumMeditation up to await generatePremiumScript(...)
PremiumStart(p) ==
  Emit([p EXCEPT !.pc = "script"],
       "Preparing your meditation...", FALSE, FALSE, UndefinedUrl)

\* From the script to await generateVoiceAudioStreaming(script)
PremiumScripted(p) ==
  Emit(Emit([p EXCEPT !.pc = "voice"],
            "Setting up the space...", TRUE, FALSE, UndefinedUrl),
       "Bringing your meditation to life...", TRUE, FALSE, UndefinedUrl)

\* Step 5 of createPremiumMeditation, and the return
PremiumComplete(p, voiceAudioUrl) ==
  Emit([p EXCEPT !.voiceAudioUrl = voiceAudioUrl, !.pc = "returned"],
       "Let's get started!", TRUE, TRUE, voiceAudioUrl)

\* From the voice audio to await injectSilenceBetweenSentences(...)
PremiumAligned(p) ==
  Emit([p EXCEPT !.pc = "injecting"],
       "Adding the finishing touches...", TRUE, FALSE, UndefinedUrl)

\* The code of createMeditationFast between one await and the next: the run
\* and the storage after it
GenerationStep(p, c, outcome) ==
  IF p.pc = "transcribing"
  THEN IF outcome = "fail" THEN [p |-> Thrown(p), c |-> c]
       ELSE IF p.tier = "free" THEN FreeTierStart(p, c)
       ELSE [p |-> PremiumStart(p), c |-> c]
  ELSE IF p.pc = "selecting" THEN FreeTierSelected(p, c, outcome)
  ELSE IF p.pc = "middleScript"
  THEN [p |-> IF outcome = "fail" THEN Thrown(p) ELSE FreeTierEarlyStart(p),
        c |-> c]
  ELSE IF p.pc = "script"
  THEN [p |-> IF outcome = "fail" THEN Thrown(p) ELSE PremiumScripted(p),
        c |-> c]
  ELSE IF p.pc = "voice" /\ p.tier = "free"
  THEN [p |-> IF outcome = "fail" THEN FreeTierVoiceFailed(p)
              ELSE FreeTierVoiceReady(p),
        c |-> c]
  ELSE IF p.pc = "voice"
  THEN [p |-> IF outcome = "fail" THEN PremiumComplete(p, NullUrl)
              ELSE IF outcome = "unaligned"
              THEN PremiumComplete(p, Url("blob", "raw", p.id))
              ELSE PremiumAligned(p),
        c |-> c]
  ELSE [p |-> IF outcome = "fail" THEN PremiumComplete(p, NullUrl)
              ELSE PremiumComplete(p, Url("blob", "final", p.id)),
        c |-> c]

\* ------------------------------------------------- managed voice-audio URL
\* Recordings submitted in one run of the page
MaxRecordings == 1

\* isBlobUrl(url): Boolean(url && url.startsWith('blob:'))
isBlobUrl(url) == url.scheme = "blob"

\* A string that is neither null, undefined nor empty
IsUrl(url) == url.scheme \notin {"null", "undefined"}

\* revokeBlobUrl(url): the URLs handed to URL.revokeObjectURL
revokeBlobUrl(url) == IF isBlobUrl(url) THEN {url} ELSE {}

\* Mutant of ShouldRevoke: previousUrl is not compared with nextUrl.
ShouldRevokeAlways(previousUrl, nextUrl) == IsUrl(previousUrl)

\* if (previousUrl && previousUrl !== nextUrl)
ShouldRevoke(previousUrl, nextUrl) ==
  IsUrl(previousUrl) /\ previousUrl # nextUrl

\* replaceManagedObjectUrl(previousUrl, nextUrl)
replaceManagedObjectUrl(previousUrl, nextUrl) ==
  [revoked |-> IF ShouldRevoke(previousUrl, nextUrl)
               THEN revokeBlobUrl(previousUrl) ELSE {},
   returned |-> IF IsUrl(nextUrl) THEN nextUrl ELSE NullUrl]

\* updateVoiceAudioUrl(nextAudioUrl) of LandingPage
updateVoiceAudioUrl(pg, nextAudioUrl) ==
  LET r == replaceManagedObjectUrl(pg.voiceAudioUrlRef, nextAudioUrl)
  IN [pg EXCEPT !.voiceAudioUrlRef = r.returned,
                !.voiceAudioUrl = r.returned,
                !.revoked = @ \cup r.revoked,
                !.last = [op |-> "updateVoiceAudioUrl",
                          previous |-> pg.voiceAudioUrlRef,
                          next |-> nextAudioUrl,
                          revoked |-> r.revoked,
                          returned |-> r.returned]]

\* The progress callback handleRecordingComplete passes to createMeditationFast
OnProgress(pg, event) ==
  LET pg1 == [pg EXCEPT !.processingStep = event.step]
  IN IF IsUrl(event.voiceAudioUrl)
     THEN updateVoiceAudioUrl(pg1, event.voiceAudioUrl)
     ELSE pg1

\* The callback applied to the events a step of the run emitted
RECURSIVE DeliverProgress(_, _, _)
DeliverProgress(pg, events, from) ==
  IF from > Len(events) THEN pg
  ELSE DeliverProgress(OnProgress(pg, events[from]), events, from + 1)

\* handleRecordingComplete after await createMeditationFast(...): the result
\* is stored, or the catch block falls back to the demo script
RunSettled(pg, p) ==
  IF p.pc = "returned" THEN updateVoiceAudioUrl(pg, p.voiceAudioUrl)
  ELSE IF p.pc = "threw"
  THEN updateVoiceAudioUrl([pg EXCEPT !.processingError = TRUE], NullUrl)
  ELSE pg

\* One awaited call of run i settles: its new events reach the callback, and
\* the handler continues when the run has returned or thrown
AfterGenerationStep(pg, i, p) ==
  LET before == pg.runs[i]
      pg1 == [pg EXCEPT !.runs[i] = p]
      pg2 == DeliverProgress(pg1, p.events, Len(before.events) + 1)
  IN RunSettled(pg2, p)

\* handleRecordingComplete up to await createMeditationFast(...)
handleRecordingComplete(pg, userTier, userId) ==
  LET id == Len(pg.runs) + 1
      p == createMeditationFast(id, userTier, userId)
      pg1 == [pg EXCEPT !.processingError = FALSE,
                        !.screen = "processing",
                        !.processingDone = FALSE,
                        !.closedSince = FALSE,
                        !.runs = Append(@, [p EXCEPT !.events = << >>])]
  IN AfterGenerationStep(pg1, id, p)

\* handleSuccessComplete
handleSuccessComplete(pg) ==
  [updateVoiceAudioUrl([pg EXCEPT !.showSuccess = FALSE], NullUrl)
     EXCEPT !.screen = "home", !.closedSince = TRUE]

\* handleMeditationClose
handleMeditationClose(pg) ==
  [updateVoiceAudioUrl(pg, NullUrl)
     EXCEPT !.screen = "home", !.closedSince = TRUE]

\* The state of LandingPage after its first render
MountedPage ==
  [mounted |-> TRUE, screen |-> "home", showPaywall |-> FALSE,
   showSuccess |-> FALSE, voiceAudioUrl |-> NullUrl,
   voiceAudioUrlRef |-> NullUrl, processingStep |-> "Processing...",
   processingError |-> FALSE, processingDone |-> FALSE,
   summarising |-> FALSE, sessionAudioUrl |-> NullUrl,
   runs |-> << >>, revoked |-> {}, closedSince |-> FALSE,
   last |-> [op |-> "none"]]

\* ------------------------------------------------------------ journey cache
\* Sessions one user adds, and entries one user stores
MaxJourneySessions == 2
MaxPuts == 2

JourneyUsers == {"u1", "u2"}

\* req.result of store.get when nothing is stored under the key
NoEntry == [present |-> FALSE]

\* getNewestSessionTimestamp(sessions): '' is 0
RECURSIVE getNewestSessionTimestamp(_)
getNewestSessionTimestamp(sessions) ==
  IF Len(sessions) = 0 THEN 0
  ELSE Max(Head(sessions), getNewestSessionTimestamp(Tail(sessions)))

\* Mutant of CacheValid: the newest-session timestamp is not compared.
CacheValidAnyTimestamp(entry, currentNewestTimestamp) == entry.recapIsAI

\* entry.newestSessionTimestamp === currentNewestTimestamp
\*   && entry.analysis.recapIsAI
CacheValid(entry, currentNewestTimestamp) ==
  /\ entry.newestSessionTimestamp = currentNewestTimestamp
  /\ entry.recapIsAI

\* getCachedJourney(userId, currentNewestTimestamp): what the promise
\* resolves with; openDB() or the request can fail
getCachedJourney(cache, userId, currentNewestTimestamp, outcome) ==
  IF outcome = "fail" THEN NoEntry
  ELSE IF ~cache[userId].present THEN NoEntry
  ELSE IF CacheValid(cache[userId], currentNewestTimestamp)
  THEN cache[userId]
  ELSE NoEntry

\* setCachedJourney(userId, analysis, meditationScript, audioBlob,
\* newestSessionTimestamp): the object store afterwards
setCachedJourney(cache, userId, recapIsAI, meditationScript, audioBlob, newestSessionTimestamp, seq, outcome) ==
  IF ~recapIsAI THEN cache
  ELSE IF outcome = "fail" THEN cache
  ELSE [cache EXCEPT ![userId] =
          [present |-> TRUE, recapIsAI |-> recapIsAI,
           meditationScript |-> meditationScript, audioBlob |-> audioBlob,
           newestSessionTimestamp |-> newestSessionTimestamp,
           seq |-> seq]]

\* The newest-session timestamps a load of AIJourneyScreen of this user can
\* have computed so far
NewestSoFar(sessions) ==
  {0} \cup {sessions[i] : i \in 1..Len(sessions)}

\* An empty object store, no sessions
EmptyJourney ==
  [sessions |-> [u \in JourneyUsers |-> << >>], now |-> 0,
   cache |-> [u \in JourneyUsers |-> NoEntry],
   puts |-> [u \in JourneyUsers |-> 0],
   latest |-> [u \in JourneyUsers |-> NoEntry],
   last |-> [op |-> "none"]]

\* ----------------------------------------------------------------- state
VARIABLES
  fn,        \* the audio function being executed, "none" when idle
  pc,        \* its position: idle, decoding, closing, closingThrow, returned, rejected
  args,      \* its arguments
  ctxOpen,   \* the AudioContext it created is open
  result,    \* the Blob it returns, or the error it throws
  run,       \* what the synchronous part computed (buffers, copies, gaps)
  pass,      \* number of injector passes over the same clip
  prev,      \* the WAV returned by the previous pass
  engines,   \* the pacing engines invoked so far
  pipe,      \* the calling pipeline: fn, pc, target, alignment, audio
  calc,      \* the last call of a synchronous function: its inputs and output
  store,     \* the app store: user tier, dailyLimit, the clock, the last call
  fade,      \* one fadeAudioVolume call: the element's volume, the interval
  screen,    \* MeditationScreen: state, refs, timers, the two audio elements
  page,      \* LandingPage: managed voice URL, generation in flight, revoked URLs
  processing, \* ProcessingScreen: step, refs, timers, onComplete calls
  progress,  \* createMeditationFast: tier, position, the progress events emitted
  clips,     \* the per-user intro and outro clips marked used in localStorage
  journey    \* the journey cache in localStorage and the last lookup

vars == <<fn, pc, args, ctxOpen, result, run, pass, prev, engines, pipe, calc,
          store, fade, screen, page, processing, progress, clips, journey>>
uiVars == <<fade, screen, page, processing, progress, clips, journey>>
audioVars == <<fn, pc, args, ctxOpen, result, run, pass, prev, engines, pipe>>

NoPipe == [fn |-> "none", pc |-> "idle", target |-> 0, alignment |-> "none",
           audio |-> "none"]
NoRun == [path |-> "none"]
NoResult == [type |-> "none"]
NoCalc == [op |-> "none"]
NoFade == [pc |-> "none"]
NoScreen == [mounted |-> FALSE]
NoPage == [mounted |-> FALSE]
NoProcessing == [mounted |-> FALSE]
NoProgress == [pc |-> "none"]
NoClips == [user |-> "none"]
NoJourney == [user |-> "none"]
UiIdle ==
  /\ fade = NoFade
  /\ screen = NoScreen
  /\ page = NoPage
  /\ processing = NoProcessing
  /\ progress = NoProgress
  /\ clips = NoClips
  /\ journey = NoJourney
NoStore == [user |-> "none", now |-> 0, dailyLimit |-> getDefaultDailyLimit(0),
            last |-> [op |-> "none"]]

\* checkDailyLimit: () => { ... }; the value returned is last.returned
checkDailyLimit(st) ==
  IF LimitExpired(st.now, st.dailyLimit)
  THEN [st EXCEPT !.dailyLimit = getDefaultDailyLimit(st.now),
                  !.last = [op |-> "checkDailyLimit", expired |-> TRUE,
                            before |-> st.dailyLimit,
                            returned |-> TRUE]]
  ELSE [st EXCEPT !.last =
          [op |-> "checkDailyLimit", expired |-> FALSE,
           before |-> st.dailyLimit,
           returned |-> IF st.user = "premium" THEN TRUE
                        ELSE st.dailyLimit.sessionsToday
                               < st.dailyLimit.maxSessions]]

\* incrementDailySession: () => { ... }
incrementDailySession(st) ==
  LET newCount == st.dailyLimit.sessionsToday + 1
      canMeditate == st.user = "premium"
                     \/ newCount < st.dailyLimit.maxSessions
  IN [st EXCEPT !.dailyLimit.sessionsToday = newCount,
                !.dailyLimit.canMeditate = canMeditate,
                !.last =
                  [op |-> "incrementDailySession",
                   expired |-> LimitExpired(st.now, st.dailyLimit),
                   before |-> st.dailyLimit]]

AudioIdle ==
  /\ fn = "none"
  /\ pc = "idle"
  /\ args = [bytes |-> "none"]
  /\ ctxOpen = FALSE
  /\ result = NoResult
  /\ run = NoRun
  /\ pass = 0
  /\ prev = NoResult
  /\ engines = << >>
  /\ pipe = NoPipe

Init ==
  /\ fn = "none"
  /\ pc = "idle"
  /\ args = [bytes |-> "none"]
  /\ ctxOpen = FALSE
  /\ result = NoResult
  /\ run = NoRun
  /\ pass = 0
  /\ prev = NoResult
  /\ engines = << >>
  /\ pipe = NoPipe
  /\ calc = NoCalc
  /\ store = NoStore
  /\ UiIdle

ByteStreams == {"valid", "corrupt"}

\* const audioCtx = new AudioContext(); await audioCtx.decodeAudioData(...)
EnterInjector(bytes, alignment, targetTicks) ==
  /\ fn' = "inject"
  /\ pc' = "decoding"
  /\ args' = [bytes |-> bytes, alignment |-> alignment, target |-> targetTicks]
  /\ ctxOpen' = TRUE
  /\ result' = NoResult
  /\ run' = NoRun
  /\ engines' = Append(engines, "injector")

InjectCall ==
  /\ pc = "idle" /\ pipe.pc = "idle"
  /\ \E bytes \in ByteStreams, alignment \in WordAlignments,
        targetTicks \in 1..MaxTargetTick :
        EnterInjector(bytes, alignment, targetTicks)
  /\ pass' = 1
  /\ UNCHANGED <<prev, pipe>>
  /\ UNCHANGED <<calc, store, uiVars>>

\* catch (error) { await audioCtx.close(); return new Blob([audioBuffer], mpeg) }
InjectDecodeRejected ==
  /\ fn = "inject" /\ pc = "decoding" /\ args.bytes = "corrupt"
  /\ pc' = "closing"
  /\ result' = OriginalBlob(args.bytes)
  /\ run' = [path |-> "decodeFailed"]
  /\ UNCHANGED <<fn, args, ctxOpen, pass, prev, engines, pipe>>
  /\ UNCHANGED <<calc, store, uiVars>>

\* The decode resolves; the function runs to its next await, the close of
\* the context, or throws on the way.
InjectDecodeResolved ==
  /\ fn = "inject" /\ pc = "decoding" /\ args.bytes = "valid"
  /\ \E numChannels \in 1..MaxChannels, decodedLen \in 1..MaxDecodedLen :
        \E r \in {InjectAfterDecode(args.alignment, args.target, numChannels,
                                    decodedLen)} :
           /\ (pass > 1 =>
                 /\ numChannels = prev.numChannels
                 /\ decodedLen = prev.numSamples)
           /\ run' = r
           /\ IF r.threw
              THEN /\ pc' = "rejected"
                   /\ result' = [type |-> "RangeError"]
              ELSE /\ pc' = "closing"
                   /\ result' = audioBufferToWav(r.out, SampleRate)
  /\ UNCHANGED <<fn, args, ctxOpen, pass, prev, engines, pipe>>
  /\ UNCHANGED <<calc, store, uiVars>>

\* await audioCtx.close() resolves and the function returns its Blob
CloseResolved ==
  /\ pc = "closing"
  /\ ctxOpen' = FALSE
  /\ pc' = "returned"
  /\ UNCHANGED <<fn, args, result, run, pass, prev, engines, pipe>>
  /\ UNCHANGED <<calc, store, uiVars>>

\* The caller feeds a clip that came back as it was into the injector again,
\* with the same alignment and target.
InjectAgain ==
  /\ fn = "inject" /\ pc = "returned" /\ pipe.pc = "idle"
  /\ run.path = "asIs" /\ pass < MaxPasses
  /\ prev' = result
  /\ pass' = pass + 1
  /\ EnterInjector("valid", args.alignment, args.target)
  /\ UNCHANGED pipe
  /\ UNCHANGED <<calc, store, uiVars>>

\* const audioContext = new AudioContext({ sampleRate: 44100 });
\* await audioBlob.arrayBuffer(); await audioContext.decodeAudioData(arrayBuffer)
StretchCall ==
  /\ pc = "idle" /\ pipe.pc = "idle"
  /\ \E bytes \in ByteStreams, targetTicks \in 1..MaxTargetTick :
        args' = [bytes |-> bytes, target |-> targetTicks]
  /\ fn' = "stretch"
  /\ pc' = "decoding"
  /\ ctxOpen' = TRUE
  /\ engines' = Append(engines, "stretcher")
  /\ UNCHANGED <<result, run, pass, prev, pipe>>
  /\ UNCHANGED <<calc, store, uiVars>>

\* decodeAudioData rejects: nothing catches it, the promise of
\* stretchAudioToFitDuration rejects
StretchDecodeRejected ==
  /\ fn = "stretch" /\ pc = "decoding" /\ args.bytes = "corrupt"
  /\ pc' = "rejected"
  /\ result' = [type |-> "EncodingError"]
  /\ run' = [path |-> "decodeFailed"]
  /\ UNCHANGED <<fn, args, ctxOpen, pass, prev, engines, pipe>>
  /\ UNCHANGED <<calc, store, uiVars>>

\* The decode resolves: early exit with the Blob as given, or a WAV of
\* Math.ceil(targetDurationSeconds * sampleRate) samples per channel.
StretchDecodeResolved ==
  /\ fn = "stretch" /\ pc = "decoding" /\ args.bytes = "valid"
  /\ \E numChannels \in 1..MaxChannels, pattern \in WindowPatterns :
        \E r \in {StretchAfterDecode([c \in 1..numChannels |->
                                       PatternChannel(pattern, StretchRate)],
                                    args.target, StretchRate)} :
           /\ run' = r
           /\ IF r.path = "alreadyLongEnough"
              THEN /\ result' = OriginalBlob(args.bytes)
                   /\ pc' = "closing"
              ELSE IF r.threw
              THEN /\ result' = [type |-> "RangeError"]
                   /\ pc' = "rejected"
              ELSE /\ result' = [type |-> "audio/wav", numChannels |-> numChannels,
                                  sampleRate |-> StretchRate,
                                  numSamples |-> r.out[1].len,
                                  size |-> HeaderSize + r.out[1].len
                                                        * numChannels * BytesPerSample]
                   /\ pc' = "closing"
  /\ UNCHANGED <<fn, args, ctxOpen, pass, prev, engines, pipe>>
  /\ UNCHANGED <<calc, store, uiVars>>

\* const audioContext = new AudioContext(); try { await Promise.all(decodes)
ConcatCall ==
  /\ pc = "idle" /\ pipe.pc = "idle"
  /\ \E intro \in ByteStreams, middle \in ByteStreams, outro \in ByteStreams :
        args' = [bytes |-> <<intro, middle, outro>>]
  /\ fn' = "concat"
  /\ pc' = "decoding"
  /\ ctxOpen' = TRUE
  /\ UNCHANGED <<result, run, pass, prev, engines, pipe>>
  /\ UNCHANGED <<calc, store, uiVars>>

\* One of the three decodes rejects: finally { await audioContext.close() }
\* runs and the error goes on to the caller.
ConcatDecodeRejected ==
  /\ fn = "concat" /\ pc = "decoding"
  /\ \E n \in 1..3 : args.bytes[n] = "corrupt"
  /\ pc' = "closingThrow"
  /\ result' = [type |-> "EncodingError"]
  /\ run' = [path |-> "decodeFailed"]
  /\ UNCHANGED <<fn, args, ctxOpen, pass, prev, engines, pipe>>
  /\ UNCHANGED <<calc, store, uiVars>>

ConcatDecodeResolved ==
  /\ fn = "concat" /\ pc = "decoding"
  /\ \A n \in 1..3 : args.bytes[n] = "valid"
  /\ \E d \in ConcatDecodes :
        \E r \in {ConcatAfterDecode(ClipChannels(1, d.ncs[1], d.lens[1]),
                                    ClipChannels(2, d.ncs[2], d.lens[2]),
                                    ClipChannels(3, d.ncs[3], d.lens[3]), d.rate)} :
           /\ run' = r
           /\ IF r.threw
              THEN /\ pc' = "closingThrow"
                   /\ result' = [type |-> "RangeError"]
              ELSE /\ pc' = "closing"
                   /\ result' = audioBufferToWav(r.out, d.rate)
  /\ UNCHANGED <<fn, args, ctxOpen, pass, prev, engines, pipe>>
  /\ UNCHANGED <<calc, store, uiVars>>

\* finally { await audioContext.close() } on the way out of a throw
CloseThenThrow ==
  /\ pc = "closingThrow"
  /\ ctxOpen' = FALSE
  /\ pc' = "rejected"
  /\ UNCHANGED <<fn, args, result, run, pass, prev, engines, pipe>>
  /\ UNCHANGED <<calc, store, uiVars>>

\* ------------------------------------------------------ calling pipelines
\* createPremiumMeditation (target = durationSeconds) and
\* generateJourneyMeditationAudio (target = 300 s)
JourneyTargetSeconds == 300

\* The durations a premium meditation is asked for: one a decoded clip can
\* outlast, and the longest of the range.
PremiumDurations == {2, MaxTargetTick}

\* What generateVoiceAudioStreaming returns as alignment: undefined when the
\* response carries no alignment source, else the words found in it.
AlignmentResults ==
  {[present |-> FALSE, words |-> << >>]}
  \cup {[present |-> TRUE, words |-> a] : a \in WordAlignments}

\* The alignment of a voice result: absent, empty or present (with words)
AlignmentKind(al) ==
  IF ~al.present THEN "absent"
  ELSE IF Len(al.words) = 0 THEN "empty" ELSE "present"

PipelineCall ==
  /\ pc = "idle" /\ pipe.pc = "idle"
  /\ \/ \E targetTicks \in PremiumDurations :
          pipe' = [NoPipe EXCEPT !.fn = "premium", !.pc = "voice",
                                 !.target = targetTicks]
     \/ pipe' = [NoPipe EXCEPT !.fn = "journey", !.pc = "voice",
                               !.target = JourneyTargetSeconds * TicksPerSecond]
  /\ UNCHANGED <<fn, pc, args, ctxOpen, result, run, pass, prev, engines>>
  /\ UNCHANGED <<calc, store, uiVars>>

\* generateVoiceAudioStreaming throws: catch (error) leaves the audio null
VoiceRejected ==
  /\ pipe.pc = "voice"
  /\ pipe' = [pipe EXCEPT !.pc = "done", !.audio = "null"]
  /\ UNCHANGED <<fn, pc, args, ctxOpen, result, run, pass, prev, engines>>
  /\ UNCHANGED <<calc, store, uiVars>>

\* Mutant of HasAlignment: an empty alignment counts as alignment data
HasAlignmentPresent(al) == al.present

\* if (voiceResult.alignment && voiceResult.alignment.length > 0)
HasAlignment(al) == al.present /\ Len(al.words) > 0

\* generateVoiceAudioStreaming returns: the injector is called when there is
\* alignment data, else the raw audio is used as it is.
VoiceResolved ==
  /\ pipe.pc = "voice"
  /\ \E al \in AlignmentResults :
        IF HasAlignment(al)
        THEN /\ \E bytes \in ByteStreams : EnterInjector(bytes, al.words, pipe.target)
             /\ pipe' = [pipe EXCEPT !.pc = "injecting",
                                     !.alignment = AlignmentKind(al)]
             /\ pass' = 1
             /\ UNCHANGED prev
        ELSE /\ pipe' = [pipe EXCEPT !.pc = "done", !.audio = "audio/mpeg",
                                     !.alignment = AlignmentKind(al)]
             /\ UNCHANGED <<fn, pc, args, ctxOpen, result, run, pass, prev, engines>>
  /\ UNCHANGED <<calc, store, uiVars>>

\* voiceAudioUrl = URL.createObjectURL(finalAudioBlob)
InjectorReturnsToPipeline ==
  /\ pipe.pc = "injecting" /\ fn = "inject" /\ pc = "returned"
  /\ pipe' = [pipe EXCEPT !.pc = "done", !.audio = result.type]
  /\ UNCHANGED <<fn, pc, args, ctxOpen, result, run, pass, prev, engines>>
  /\ UNCHANGED <<calc, store, uiVars>>

\* the injector throws: catch (error) leaves the audio null
InjectorThrowsToPipeline ==
  /\ pipe.pc = "injecting" /\ fn = "inject" /\ pc = "rejected"
  /\ pipe' = [pipe EXCEPT !.pc = "done", !.audio = "null"]
  /\ UNCHANGED <<fn, pc, args, ctxOpen, result, run, pass, prev, engines>>
  /\ UNCHANGED <<calc, store, uiVars>>

Next ==
  \/ InjectCall
  \/ InjectDecodeRejected
  \/ InjectDecodeResolved
  \/ CloseResolved
  \/ InjectAgain
  \/ ConcatCall
  \/ ConcatDecodeRejected
  \/ ConcatDecodeResolved
  \/ CloseThenThrow
  \/ PipelineCall
  \/ VoiceRejected
  \/ VoiceResolved
  \/ InjectorReturnsToPipeline
  \/ InjectorThrowsToPipeline

Spec == Init /\ [][Next]_vars

\* The stretcher on its own: createStretchedAudioUrl is its only caller
StretchNext ==
  \/ StretchCall
  \/ StretchDecodeRejected
  \/ StretchDecodeResolved
  \/ CloseResolved

StretchSpec == Init /\ [][StretchNext]_vars

\* ------------------------------------------------------------ the app store
StoreInit ==
  /\ fn = "none"
  /\ pc = "idle"
  /\ args = [bytes |-> "none"]
  /\ ctxOpen = FALSE
  /\ result = NoResult
  /\ run = NoRun
  /\ pass = 0
  /\ prev = NoResult
  /\ engines = << >>
  /\ pipe = NoPipe
  /\ calc = NoCalc
  /\ \E tier \in UserTiers : store = [NoStore EXCEPT !.user = tier]
  /\ UiIdle

\* checkDailyLimit is called
CheckDailyLimit ==
  /\ store' = checkDailyLimit(store)
  /\ UNCHANGED <<audioVars, calc, uiVars>>

\* incrementDailySession is called
IncrementDailySession ==
  /\ store.dailyLimit.sessionsToday < MaxSessionsToday
  /\ store' = incrementDailySession(store)
  /\ UNCHANGED <<audioVars, calc, uiVars>>

\* resetDailyLimit: () => { set({ dailyLimit: getDefaultDailyLimit() }) }
ResetDailyLimit ==
  /\ store' = [store EXCEPT !.dailyLimit = getDefaultDailyLimit(store.now),
                            !.last = [op |-> "resetDailyLimit"]]
  /\ UNCHANGED <<audioVars, calc, uiVars>>

\* Time passes between two calls
ClockTick ==
  /\ store.now < MaxNow
  /\ store' = [store EXCEPT !.now = store.now + 1, !.last = [op |-> "none"]]
  /\ UNCHANGED <<audioVars, calc, uiVars>>

StoreNext ==
  \/ CheckDailyLimit
  \/ IncrementDailySession
  \/ ResetDailyLimit
  \/ ClockTick

StoreSpec == StoreInit /\ [][StoreNext]_vars

\* ------------------------------------------------- fadeAudioVolume on its own
FadeInit ==
  /\ AudioIdle
  /\ calc = NoCalc
  /\ store = NoStore
  /\ \E volume \in FadeVolumes, toVolume \in FadeTargets,
        durationMs \in FadeDurations :
       fade = [pc |-> "call", volume |-> volume, toVolume |-> toVolume,
               durationMs |-> durationMs, ticks |-> 0, interval |-> NoInterval]
  /\ screen = NoScreen
  /\ page = NoPage
  /\ processing = NoProcessing
  /\ progress = NoProgress
  /\ clips = NoClips
  /\ journey = NoJourney

\* fadeAudioVolume(audio, toVolume, durationMs) up to its return
FadeAudioVolumeCall ==
  /\ fade.pc = "call"
  /\ \E r \in {fadeAudioVolume(fade.volume, fade.toVolume, fade.durationMs)} :
       fade' = [fade EXCEPT !.pc = IF r.resolved THEN "resolved" ELSE "pending",
                            !.volume = r.volume,
                            !.interval = r.interval]
  /\ UNCHANGED <<audioVars, calc, store, screen, page, processing, progress,
                 clips, journey>>

\* The interval timer fires
FadeIntervalFires ==
  /\ fade.pc = "pending"
  /\ fade.interval.active
  /\ \E r \in {fadeIntervalTick(fade.interval)} :
       fade' = [fade EXCEPT !.pc = IF r.resolved THEN "resolved" ELSE "pending",
                            !.volume = r.volume,
                            !.interval = r.interval,
                            !.ticks = fade.ticks + 1]
  /\ UNCHANGED <<audioVars, calc, store, screen, page, processing, progress,
                 clips, journey>>

FadeNext ==
  \/ FadeAudioVolumeCall
  \/ FadeIntervalFires

\* A running interval timer keeps firing.
FadeSpec == FadeInit /\ [][FadeNext]_vars /\ WF_vars(FadeNext)

\* ------------------------------------------------------ the meditation screen
ScreenInit ==
  /\ AudioIdle
  /\ calc = NoCalc
  /\ store = NoStore
  /\ fade = NoFade
  /\ \E hasVoice \in BOOLEAN : screen = MountedScreen(hasVoice)
  /\ page = NoPage
  /\ processing = NoProcessing
  /\ progress = NoProgress
  /\ clips = NoClips
  /\ journey = NoJourney

notScreen == <<audioVars, calc, store, fade, page, processing, progress, clips,
               journey>>

\* The play button is pressed
PressPlay ==
  /\ screen.presses < MaxPresses
  /\ screen' = [togglePlayback(screen) EXCEPT !.presses = @ + 1]
  /\ UNCHANGED notScreen

\* The mute button of the music is pressed, before the first play
ToggleMusicMute ==
  /\ screen.presses = 0
  /\ \E s \in {[screen EXCEPT !.isMusicMuted = ~@]} :
       screen' = IF s.isPlaying THEN PlayingEffect(s) ELSE s
  /\ UNCHANGED notScreen

\* The mute button of the voice is pressed, before the first play
ToggleVoiceMute ==
  /\ screen.presses = 0
  /\ \E s \in {[screen EXCEPT !.isVoiceMuted = ~@]} :
       screen' = IF s.isPlaying THEN PlayingEffect(s) ELSE s
  /\ UNCHANGED notScreen

\* The countdown interval fires
CountdownIntervalFires ==
  /\ screen.tasks = {}
  /\ screen.countdownTimer = 0
  /\ screen' = [screen EXCEPT
       !.countdownSeconds = IF @ = 0 THEN 0 ELSE IF @ > 1 THEN @ - 1 ELSE 1,
       !.countdownTimer = CountdownIntervalTicks]
  /\ UNCHANGED notScreen

\* The timeout of beginSoftStart fires
StartPlaybackTimerFires ==
  /\ screen.tasks = {}
  /\ screen.countdownTimer # 0
  /\ screen.startPlaybackTimer.left = 0
  /\ \E s \in {[clearPreparationTimers(screen) EXCEPT
                  !.countdownSeconds = 0,
                  !.firstStart = IF @ = "counting" THEN "fired" ELSE @]} :
       screen' = startPlaybackNow(s, screen.startPlaybackTimer.mm,
                                  screen.startPlaybackTimer.vm)
  /\ UNCHANGED notScreen

\* The promise of a play() call settles
PlaySettles ==
  /\ \E t \in screen.tasks :
       screen' = IF t.at = "music" THEN StartAfterMusicPlay(screen, t)
                 ELSE StartAfterVoicePlay(screen, t)
  /\ UNCHANGED notScreen

\* The interval of a fade fires. Timers due in the same tick fire one after
\* the other: the progress interval, then the fades in the order in which
\* they were set; a pending play() promise settles first.
ScreenFadeFires ==
  /\ screen.tasks = {}
  /\ screen.timer # 0
  /\ \E i \in 1..Len(screen.fades) :
       /\ screen.fades[i].due
       /\ \A j \in 1..(i - 1) : ~screen.fades[j].due
       /\ screen' = ScreenFadeTick(screen, i)
  /\ UNCHANGED notScreen

\* The 200 ms interval of the playing effect fires
ProgressIntervalFires ==
  /\ screen.tasks = {}
  /\ screen.timer = 0
  /\ screen' = ProgressTick(screen)
  /\ UNCHANGED notScreen

\* setTimeout(onComplete, 1000) fires
OnCompleteFires ==
  /\ screen.onCompleteTimer = 0
  /\ screen' = [screen EXCEPT !.onCompleteTimer = NoTimer,
                              !.completed = @ + 1]
  /\ UNCHANGED notScreen

\* Time passes when no timer is due; a play() promise settles within the tick
ScreenTick ==
  /\ ~ScreenTimerDue(screen)
  /\ ScreenTimerPending(screen)
  /\ screen.tasks = {}
  /\ screen' = ScreenAfterTick(screen)
  /\ UNCHANGED notScreen

ScreenNext ==
  \/ PressPlay
  \/ ToggleMusicMute
  \/ ToggleVoiceMute
  \/ CountdownIntervalFires
  \/ StartPlaybackTimerFires
  \/ PlaySettles
  \/ ScreenFadeFires
  \/ ProgressIntervalFires
  \/ OnCompleteFires
  \/ ScreenTick

ScreenSpec == ScreenInit /\ [][ScreenNext]_vars

\* ------------------------------------------------------ the processing screen
ProcessingInit ==
  /\ AudioIdle
  /\ calc = NoCalc
  /\ store = NoStore
  /\ fade = NoFade
  /\ screen = NoScreen
  /\ page = NoPage
  /\ \E externalStep \in ExternalSteps :
       processing = ProcessingEffects(ProcessingInitial(externalStep))
  /\ progress = NoProgress
  /\ clips = NoClips
  /\ journey = NoJourney

notProcessing == <<audioVars, calc, store, fade, screen, page, progress, clips,
                   journey>>

\* The parent renders the screen with another currentStep
CurrentStepChanges ==
  /\ \E externalStep \in ExternalSteps \ {processing.externalStep, "none"} :
       processing' =
         ProcessingEffects([processing EXCEPT !.externalStep = externalStep])
  /\ UNCHANGED notProcessing

\* The 800 ms timer of the completion effect fires
CompletionTimerFires ==
  /\ processing.timer = 0
  /\ processing' = [processing EXCEPT !.timer = 0 - 1,
                                      !.onCompleteCalls = @ + 1]
  /\ UNCHANGED notProcessing

\* A step timer of the fallback schedule fires
FallbackStepFires ==
  /\ \E i \in 1..Len(processingSteps) :
       /\ processing.fallback.stepTimers[i] = 0
       /\ processing' = [processing EXCEPT
            !.fallback.stepTimers[i] = 0 - 1,
            !.currentStepIndex = i,
            !.displayText = processingSteps[i].text]
  /\ UNCHANGED notProcessing

\* The progress animation interval of the fallback schedule fires
FallbackProgressFires ==
  /\ processing.fallback.progressInterval = 0
  /\ processing' =
       IF processing.progress >= ProgressFull
       THEN [processing EXCEPT !.fallback.progressInterval = 0 - 1,
                               !.progress = ProgressFull]
       ELSE [processing EXCEPT
               !.fallback.progressInterval =
                 ProcessingTicksOf(totalDuration \div ProgressIntervalCount),
               !.progress = @ + ProgressIncrement]
  /\ UNCHANGED notProcessing

\* The completion timer of the fallback schedule fires
FallbackCompleteFires ==
  /\ processing.fallback.completeTimer = 0
  /\ processing' =
       IF ~processing.completedRef
       THEN [processing EXCEPT !.fallback.completeTimer = 0 - 1,
                               !.completedRef = TRUE,
                               !.onCompleteCalls = @ + 1]
       ELSE [processing EXCEPT !.fallback.completeTimer = 0 - 1]
  /\ UNCHANGED notProcessing

\* Time passes when no timer is due
ProcessingTick ==
  /\ ~ProcessingTimerDue(processing)
  /\ ProcessingTimerPending(processing)
  /\ processing' = [processing EXCEPT
       !.timer = TimerTicksDown(@),
       !.fallback.stepTimers =
         [i \in 1..Len(processingSteps) |-> TimerTicksDown(@[i])],
       !.fallback.progressInterval = TimerTicksDown(@),
       !.fallback.completeTimer = TimerTicksDown(@)]
  /\ UNCHANGED notProcessing

ProcessingNext ==
  \/ CurrentStepChanges
  \/ CompletionTimerFires
  \/ FallbackStepFires
  \/ FallbackProgressFires
  \/ FallbackCompleteFires
  \/ ProcessingTick

ProcessingSpec == ProcessingInit /\ [][ProcessingNext]_vars

\* ------------------------------------------------------ meditation generation
GenerationInit ==
  /\ AudioIdle
  /\ calc = NoCalc
  /\ store = NoStore
  /\ fade = NoFade
  /\ screen = NoScreen
  /\ page = NoPage
  /\ processing = NoProcessing
  /\ progress = NoRunning
  /\ clips = EmptyClipStorage
  /\ journey = NoJourney

notGeneration == <<audioVars, calc, store, fade, screen, page, processing,
                   journey>>

\* createMeditationFast is called; the previous run has returned or thrown
CreateMeditationFast ==
  /\ progress.pc \in {"none", "returned", "threw"}
  /\ \E userTier \in SubscriptionTiers, userId \in ClipUsers :
       progress' = createMeditationFast(1, userTier, userId)
  /\ UNCHANGED <<notGeneration, clips>>

\* await transcribeAudio(audioBlob) settles
TranscribeSettles ==
  /\ progress.pc = "transcribing"
  /\ \E outcome \in Outcomes(progress) :
       \E r \in {GenerationStep(progress, clips, outcome)} :
         progress' = r.p /\ clips' = r.c
  /\ UNCHANGED notGeneration

\* await selectBestIntroOutro(...) settles
SelectionSettles ==
  /\ progress.pc = "selecting"
  /\ \E outcome \in Outcomes(progress) :
       \E r \in {GenerationStep(progress, clips, outcome)} :
         progress' = r.p /\ clips' = r.c
  /\ UNCHANGED notGeneration

\* await generateFreeTierMiddleScript(...) or generatePremiumScript(...) settles
ScriptSettles ==
  /\ progress.pc \in {"middleScript", "script"}
  /\ \E outcome \in Outcomes(progress) :
       \E r \in {GenerationStep(progress, clips, outcome)} :
         progress' = r.p /\ clips' = r.c
  /\ UNCHANGED notGeneration

\* The awaits of the voice generation settle
VoiceSettles ==
  /\ progress.pc = "voice"
  /\ \E outcome \in Outcomes(progress) :
       \E r \in {GenerationStep(progress, clips, outcome)} :
         progress' = r.p /\ clips' = r.c
  /\ UNCHANGED notGeneration

\* await injectSilenceBetweenSentences(...) settles
InjectionSettles ==
  /\ progress.pc = "injecting"
  /\ \E outcome \in Outcomes(progress) :
       \E r \in {GenerationStep(progress, clips, outcome)} :
         progress' = r.p /\ clips' = r.c
  /\ UNCHANGED notGeneration

GenerationNext ==
  \/ CreateMeditationFast
  \/ TranscribeSettles
  \/ SelectionSettles
  \/ ScriptSettles
  \/ VoiceSettles
  \/ InjectionSettles

GenerationSpec == GenerationInit /\ [][GenerationNext]_vars

\* ------------------------------------------------------------ LandingPage
PageInit ==
  /\ AudioIdle
  /\ calc = NoCalc
  /\ \E tier \in UserTiers : store = [NoStore EXCEPT !.user = tier]
  /\ fade = NoFade
  /\ screen = NoScreen
  /\ page = MountedPage
  /\ processing = NoProcessing
  /\ progress = NoProgress
  /\ clips = EmptyClipStorage
  /\ journey = NoJourney

notPage == <<audioVars, calc, fade, screen, processing, progress, journey>>

\* user?.tier || 'free'
PageUserTier == IF store.user = "premium" THEN "premium" ELSE "free"

\* user?.id
PageUserId == IF store.user = "none" THEN "none" ELSE "u1"

\* handleStartRecording: the home screen's record button
HandleStartRecording ==
  /\ page.mounted
  /\ page.screen = "home"
  /\ ~page.showPaywall
  /\ \E st \in {checkDailyLimit(store)} :
       /\ store' = st
       /\ page' = IF st.last.returned
                  THEN [page EXCEPT !.screen = "recording"]
                  ELSE [page EXCEPT !.showPaywall = TRUE]
  /\ UNCHANGED <<notPage, clips>>

\* handleUpgrade: the paywall is dismissed
HandleUpgrade ==
  /\ page.mounted
  /\ page.showPaywall
  /\ page' = [page EXCEPT !.showPaywall = FALSE]
  /\ UNCHANGED <<notPage, store, clips>>

\* onCancel of RecordingScreen
RecordingCancel ==
  /\ page.mounted
  /\ page.screen = "recording"
  /\ page' = [page EXCEPT !.screen = "home"]
  /\ UNCHANGED <<notPage, store, clips>>

\* handleRecordingComplete: a recording is submitted
HandleRecordingComplete ==
  /\ page.mounted
  /\ page.screen = "recording"
  /\ Len(page.runs) < MaxRecordings
  /\ page' = handleRecordingComplete(page, PageUserTier, PageUserId)
  /\ UNCHANGED <<notPage, store, clips>>

\* An awaited call of a createMeditationFast run settles
GenerationSettles ==
  /\ page.mounted
  /\ \E i \in 1..Len(page.runs) :
       \E outcome \in Outcomes(page.runs[i]) :
         \E r \in {GenerationStep(page.runs[i], clips, outcome)} :
           /\ page' = AfterGenerationStep(page, i, r.p)
           /\ clips' = r.c
  /\ UNCHANGED <<notPage, store>>

\* ProcessingScreen calls onComplete: handleProcessingComplete up to
\* await generateSummary(...)
HandleProcessingComplete ==
  /\ page.mounted
  /\ page.screen = "processing"
  /\ isCompleteStep(page.processingStep)
  /\ ~page.processingDone
  /\ store.dailyLimit.sessionsToday < MaxSessionsToday
  /\ store' = incrementDailySession(store)
  /\ page' = [page EXCEPT !.processingDone = TRUE,
                          !.summarising = TRUE,
                          !.sessionAudioUrl =
                            IF isBlobUrl(page.voiceAudioUrl) THEN NullUrl
                            ELSE page.voiceAudioUrl]
  /\ UNCHANGED <<notPage, clips>>

\* await generateSummary(...) settles: the session is added, the meditation
\* screen is shown
SummarySettles ==
  /\ page.mounted
  /\ page.summarising
  /\ page' = [page EXCEPT !.summarising = FALSE, !.screen = "meditation"]
  /\ UNCHANGED <<notPage, store, clips>>

\* handleMeditationComplete: the meditation was listened to the end
HandleMeditationComplete ==
  /\ page.mounted
  /\ page.screen = "meditation"
  /\ ~page.showSuccess
  /\ page' = [page EXCEPT !.showSuccess = TRUE]
  /\ UNCHANGED <<notPage, store, clips>>

\* handleSuccessComplete: the success animation has ended
HandleSuccessComplete ==
  /\ page.mounted
  /\ page.showSuccess
  /\ page' = handleSuccessComplete(page)
  /\ UNCHANGED <<notPage, store, clips>>

\* handleMeditationClose: the close button of MeditationScreen
HandleMeditationClose ==
  /\ page.mounted
  /\ page.screen = "meditation"
  /\ page' = handleMeditationClose(page)
  /\ UNCHANGED <<notPage, store, clips>>

PageNext ==
  \/ HandleStartRecording
  \/ HandleUpgrade
  \/ RecordingCancel
  \/ HandleRecordingComplete
  \/ GenerationSettles
  \/ HandleProcessingComplete
  \/ SummarySettles
  \/ HandleMeditationComplete
  \/ HandleSuccessComplete
  \/ HandleMeditationClose
  \/ ClockTick

PageSpec == PageInit /\ [][PageNext]_vars

\* ---------------------------------------------------------- journey cache
JourneyInit ==
  /\ AudioIdle
  /\ calc = NoCalc
  /\ store = NoStore
  /\ fade = NoFade
  /\ screen = NoScreen
  /\ page = NoPage
  /\ processing = NoProcessing
  /\ progress = NoProgress
  /\ clips = NoClips
  /\ journey = EmptyJourney

notJourney == <<audioVars, calc, store, fade, screen, page, processing,
                progress, clips>>

\* A meditation is created: addSession with createdAt: new Date()
JourneyAddSession ==
  /\ \E userId \in JourneyUsers :
       /\ Len(journey.sessions[userId]) < MaxJourneySessions
       /\ journey' = [journey EXCEPT
            !.now = @ + 1,
            !.sessions[userId] = Append(@, journey.now + 1),
            !.last = [op |-> "addSession", userId |-> userId]]
  /\ UNCHANGED notJourney

\* setCachedJourney is called by a load of AIJourneyScreen
SetCachedJourney ==
  /\ \E userId \in {u \in JourneyUsers : journey.puts[u] < MaxPuts},
        recapIsAI \in BOOLEAN, audioBlob \in BOOLEAN,
        outcome \in {"ok", "fail"} :
       \E newestSessionTimestamp \in NewestSoFar(journey.sessions[userId]) :
         /\ \E c \in {setCachedJourney(journey.cache, userId, recapIsAI,
                                       TRUE, audioBlob,
                                       newestSessionTimestamp,
                                       journey.puts[userId] + 1, outcome)} :
              journey' = [journey EXCEPT
                !.cache = c,
                !.puts[userId] = @ + 1,
                !.latest[userId] =
                  IF c # journey.cache THEN c[userId] ELSE @,
                !.last = [op |-> "setCachedJourney", userId |-> userId,
                          recapIsAI |-> recapIsAI,
                          stored |-> c # journey.cache]]
  /\ UNCHANGED notJourney

\* getCachedJourney is called by a load of AIJourneyScreen
GetCachedJourney ==
  /\ \E userId \in JourneyUsers, outcome \in {"ok", "fail"} :
       \E currentNewestTimestamp \in NewestSoFar(journey.sessions[userId]) :
         journey' = [journey EXCEPT
           !.last = [op |-> "getCachedJourney", userId |-> userId,
                     currentNewestTimestamp |-> currentNewestTimestamp,
                     returned |-> getCachedJourney(journey.cache, userId,
                                                   currentNewestTimestamp,
                                                   outcome)]]
  /\ UNCHANGED notJourney

JourneyNext ==
  \/ JourneyAddSession
  \/ SetCachedJourney
  \/ GetCachedJourney

JourneySpec == JourneyInit /\ [][JourneyNext]_vars

\* --------------------------------------- calls of the synchronous functions
\* The calls made of the synchronous functions, with their arguments
PacingCalls ==
  {[op |-> "call", name |-> "distributeSilence", atoms |-> atoms,
    silenceBudget |-> silenceBudget] :
     atoms \in AtomSeqs, silenceBudget \in SilenceBudgets}
  \cup {[op |-> "call", name |-> "buildSSML", atoms |-> atoms,
          silenceBudget |-> silenceBudget] :
           atoms \in AtomSeqs, silenceBudget \in SilenceBudgets}
  \cup {[op |-> "call", name |-> "characterAlignmentToWords",
          characters |-> characters] : characters \in CharacterSeqs}
  \cup {[op |-> "call", name |-> "calculateTargetWordCount",
          targetDurationSeconds |-> d] : d \in DurationSeconds}
  \cup {[op |-> "call", name |-> "atomizeText", text |-> t] : t \in Texts}
  \cup {[op |-> "call", name |-> "encode", encoder |-> e, sample |-> x] :
           e \in Encoders, x \in FloatSamples}

PacingInit ==
  /\ fn = "none"
  /\ pc = "idle"
  /\ args = [bytes |-> "none"]
  /\ ctxOpen = FALSE
  /\ result = NoResult
  /\ run = NoRun
  /\ pass = 0
  /\ prev = NoResult
  /\ engines = << >>
  /\ pipe = NoPipe
  /\ calc \in PacingCalls
  /\ store = NoStore
  /\ UiIdle

DistributeSilenceCall ==
  /\ calc.op = "call" /\ calc.name = "distributeSilence"
  /\ calc' = [op |-> "distributeSilence", atoms |-> calc.atoms,
               silenceBudget |-> calc.silenceBudget,
               out |-> distributeSilence(calc.atoms, calc.silenceBudget)]
  /\ UNCHANGED <<audioVars, store, uiVars>>

\* calculatePacing from its step C on: distributeSilence(atoms,
\* finalSilenceBudget), then buildSSML(atomsWithSilence)
BuildSSMLCall ==
  /\ calc.op = "call" /\ calc.name = "buildSSML"
  /\ LET atomsWithSilence == distributeSilence(calc.atoms, calc.silenceBudget)
     IN calc' = [op |-> "buildSSML", atoms |-> atomsWithSilence,
                 silenceBudget |-> calc.silenceBudget,
                 breaks |-> buildSSML(atomsWithSilence)]
  /\ UNCHANGED <<audioVars, store, uiVars>>

CharacterAlignmentToWordsCall ==
  /\ calc.op = "call" /\ calc.name = "characterAlignmentToWords"
  /\ calc' = [op |-> "characterAlignmentToWords", characters |-> calc.characters,
               out |-> characterAlignmentToWords(calc.characters)]
  /\ UNCHANGED <<audioVars, store, uiVars>>

CalculateTargetWordCountCall ==
  /\ calc.op = "call" /\ calc.name = "calculateTargetWordCount"
  /\ calc' = [op |-> "calculateTargetWordCount",
               targetDurationSeconds |-> calc.targetDurationSeconds,
               out |-> calculateTargetWordCount(calc.targetDurationSeconds)]
  /\ UNCHANGED <<audioVars, store, uiVars>>

AtomizeTextCall ==
  /\ calc.op = "call" /\ calc.name = "atomizeText"
  /\ calc' = [op |-> "atomizeText", text |-> calc.text,
               out |-> atomizeText(calc.text)]
  /\ UNCHANGED <<audioVars, store, uiVars>>

\* One sample goes through the sample loop of a WAV encoder
EncodeCall ==
  /\ calc.op = "call" /\ calc.name = "encode"
  /\ calc' = [op |-> "encode", encoder |-> calc.encoder, sample |-> calc.sample,
               out |-> EncodeSample(calc.encoder, calc.sample)]
  /\ UNCHANGED <<audioVars, store, uiVars>>

PacingNext ==
  \/ DistributeSilenceCall
  \/ BuildSSMLCall
  \/ CharacterAlignmentToWordsCall
  \/ CalculateTargetWordCountCall
  \/ EncodeCall
  \/ AtomizeTextCall

PacingSpec == PacingInit /\ [][PacingNext]_vars

Finished == pc \in {"returned", "rejected"}

\* ------------------------------------------------------------ properties
\* The samples written into a buffer, in the order of their positions.
RECURSIVE InOrder(_, _)
InOrder(buf, S) ==
  IF S = {} THEN << >>
  ELSE LET m == CHOOSE x \in S : \A y \in S : x <= y
       IN <<buf.data[m]>> \o InOrder(buf, S \ {m})

WrittenSamples(buf) == InOrder(buf, DOMAIN buf.data)

Distinct(seq) == \A i, j \in 1..Len(seq) : i # j => seq[i] # seq[j]

RECURSIVE SumSeq(_, _)
SumSeq(seq, i) == IF i > Len(seq) THEN 0 ELSE seq[i] + SumSeq(seq, i + 1)

\* The injector ran on a decoded clip (the decode did not fail).
InjectDecoded == fn = "inject" /\ run.path \in {"asIs", "noSplice", "splice"}
InjectHasResult == InjectDecoded /\ pc \in {"closing", "returned"}

\* The end of speech of the clip the injector is working on: the end time of
\* the last word, the decoded duration when there is none.
TrueSpeechEnd ==
  IF Len(args.alignment) > 0 /\ args.alignment[Len(args.alignment)].endTime > 0
  THEN TicksToTime(args.alignment[Len(args.alignment)].endTime)
  ELSE SamplesToTime(run.decodedLen)
TrueSpeechEndSample == Min(CeilSamples(TrueSpeechEnd), run.decodedLen)
SilenceNeeded == TicksToTime(args.target) - TrueSpeechEnd
SplicePointCount == Len(findSplicePoints(args.alignment))

\* C1: for every (non-empty) word alignment and every target duration at or
\* past the alignment's last end time, the injector returns a WAV of
\* ceil(targetDuration * sampleRate) samples, whatever the decoded length.
C1_TargetSampleCount ==
  (/\ InjectDecoded /\ Finished
   /\ Len(args.alignment) > 0
   /\ args.target >= args.alignment[Len(args.alignment)].endTime)
  => /\ pc = "returned"
     /\ result.type = "audio/wav"
     /\ result.numSamples = CeilSamples(TicksToTime(args.target))

\* C2: whenever the injector adds silence, every decoded speech sample up to
\* the true-speech-end sample index is in the output exactly once, in its
\* original order and with its original value, on every channel; nothing
\* but zero samples comes between them.
C2_SpeechSamplesPreserved ==
  (InjectHasResult /\ run.path \in {"noSplice", "splice"})
  => \A ch \in 1..run.numChannels :
       LET w == WrittenSamples(run.out[ch])
           n == TrueSpeechEndSample
       IN /\ Len(w) >= n
          /\ SubSeq(w, 1, n) = SubSeq(run.decoded[ch], 1, n)
          /\ Distinct(w)
          /\ \A k \in DOMAIN run.out[ch].data : k <= run.out[ch].len
          /\ run.path = "splice" => Len(w) = n
          /\ result.pcm[ch].data =
               [k \in DOMAIN run.out[ch].data |-> ToInt16(run.out[ch].data[k])]

\* C2 witness: two channels, three splice points, silence of at least one
\* sample inserted after the first two.
C2_Witness ==
  /\ InjectHasResult /\ pc = "returned" /\ run.path = "splice"
  /\ run.numChannels = 2
  /\ Len(run.gaps) = 3 /\ run.gaps[1] > 0 /\ run.gaps[2] > 0
  /\ TrueSpeechEndSample > 3

C4_CopiesWithinCapacity ==
  InjectDecoded
  => \A ch \in DOMAIN run.copies :
       \A c \in DOMAIN run.copies[ch] :
         run.copies[ch][c].at + run.copies[ch][c].len <= run.copies[ch][c].cap

\* C5: every invocation of the injector, the stretcher and the concatenator
\* has closed the AudioContext it created when it is over, on every exit
\* path, thrown errors included.
C5_ContextClosedOnExit == Finished => ~ctxOpen

\* C6: when the decode of the input bytes fails, neither the injector nor
\* the stretcher throws; each returns the original bytes in their format.
C6_DecodeFailureReturnsOriginal ==
  (fn \in {"inject", "stretch"} /\ Finished /\ args.bytes = "corrupt")
  => /\ pc = "returned"
     /\ result = OriginalBlob(args.bytes)

C9_NoSplicePointsAllSilenceAtEnd ==
  (InjectDecoded /\ Finished /\ SplicePointCount = 0 /\ SilenceNeeded > 0)
  => /\ pc = "returned"
     /\ result.type = "audio/wav"
     /\ result.numSamples = CeilSamples(TicksToTime(args.target))
     /\ \A ch \in 1..run.numChannels :
          /\ DOMAIN run.out[ch].data = 1..run.decodedLen
          /\ \A k \in 1..run.decodedLen : run.out[ch].data[k] = run.decoded[ch][k]

\* Concatenator results
ConcatHasResult == fn = "concat" /\ run.path = "concat" /\ pc \in {"closing", "returned"}
ClipSamples(n) == Len(run.clips[n][1])
AllClipsOfSeconds(secs) == \A n \in 1..3 : ClipSamples(n) = secs * run.rate

\* C10 as stated, on its first scenario: three 5 s clips come back as 20 s
\* of audio with two gaps of 2.5 s.
C10_OriginalTwentySeconds ==
  (ConcatHasResult /\ AllClipsOfSeconds(5))
  => /\ result.numSamples = 20 * run.rate
     /\ run.gaps = <<FloorDiv(5 * run.rate, 2), FloorDiv(5 * run.rate, 2)>>

\* C10 amended: the overall target is the fixed 60 s of the function.  For
\* three clips of total duration D, remainingTime = max(1 s, 60 s - D) is
\* split into two equal gaps and the WAV has ceil((D + remainingTime) x
\* sampleRate) samples and 44 + 2 x channels x samples bytes, so it lasts
\* exactly 60 s whenever D <= 59 s: three 5 s clips give two 22.5 s gaps and
\* 60 s; three 10 s mono clips at 10 Hz give 600 samples and 1244 bytes.
C10_ConcatSixtySeconds ==
  ConcatHasResult
  => LET d == ClipSamples(1) + ClipSamples(2) + ClipSamples(3)
         remaining == IF 60 * run.rate - d > run.rate THEN 60 * run.rate - d
                      ELSE run.rate
         channels == Max(Len(run.clips[1]), Max(Len(run.clips[2]), Len(run.clips[3])))
     IN /\ run.remaining = remaining
        /\ run.gaps = <<remaining \div 2, remaining \div 2>>
        /\ result.type = "audio/wav"
        /\ result.numChannels = channels
        /\ result.numSamples = d + remaining
        /\ result.size = 44 + 2 * channels * (d + remaining)
        /\ d <= 59 * run.rate => result.numSamples = 60 * run.rate
        /\ AllClipsOfSeconds(5) =>
             /\ 2 * run.gaps[1] \in {45 * run.rate, 45 * run.rate - 1}
             /\ result.numSamples = 60 * run.rate
        /\ (AllClipsOfSeconds(10) /\ run.rate = 10 /\ channels = 1) =>
             /\ result.numSamples = 600
             /\ result.size = 1244

\* C10 witness: the repository's test, three mono clips of 100 samples at 10 Hz
C10_Witness ==
  /\ ConcatHasResult /\ pc = "returned"
  /\ run.rate = 10 /\ AllClipsOfSeconds(10) /\ result.numChannels = 1
  /\ result.size = 1244

\* Where clip n starts in the output: after the clips and the gaps before it
ClipOffset(n) ==
  IF n = 1 THEN 0
  ELSE IF n = 2 THEN ClipSamples(1) + run.remaining \div 2
  ELSE ClipSamples(1) + ClipSamples(2) + 2 * (run.remaining \div 2)

\* C11: concatenateWithSilenceGaps writes intro, gap, middle, gap, outro in
\* that order and copies every sample of the three clips in full (a clip with
\* fewer channels than the output repeats its last channel); the gaps hold
\* zeros; no write goes past the end of the output buffer; when the clips
\* alone exceed the 60 s target the remaining time collapses to the 1 s floor
\* and the output is longer than the target.
C11_ConcatCopiesAllInOrder ==
  (fn = "concat" /\ run.path = "concat")
  => /\ ~run.threw
     /\ \A i \in 1..Len(run.copies) :
          run.copies[i].at + run.copies[i].len <= run.copies[i].cap
     /\ \A n \in 1..3 : \A c \in 1..Len(run.out) : \A k \in 1..ClipSamples(n) :
          /\ ClipOffset(n) + k \in DOMAIN run.out[c].data
          /\ run.out[c].data[ClipOffset(n) + k]
               = run.clips[n][Min(c, Len(run.clips[n]))][k]
     /\ \A c \in 1..Len(run.out) :
          DOMAIN run.out[c].data
            = UNION {(ClipOffset(n) + 1)..(ClipOffset(n) + ClipSamples(n)) : n \in 1..3}
     /\ ClipOffset(1) + ClipSamples(1) <= ClipOffset(2)
     /\ ClipOffset(2) + ClipSamples(2) <= ClipOffset(3)
     /\ ClipOffset(3) + ClipSamples(3) <= run.out[1].len
     /\ (run.totalClipSamples > ConcatTargetDuration * run.rate
          => /\ run.remaining = run.rate
             /\ run.out[1].len = run.totalClipSamples + run.rate
             /\ run.out[1].len > ConcatTargetDuration * run.rate)

\* C11 witness: three clips of 20.5 s at 10 Hz, longer than the target
\* together, come back in full with two gaps of half a second
C11_Witness ==
  /\ ConcatHasResult /\ pc = "returned"
  /\ run.rate = 10 /\ run.totalClipSamples = 615
  /\ run.gaps = <<5, 5>>
  /\ result.numSamples = 625
  /\ run.out[1].data[ClipOffset(3) + 205] = run.clips[3][1][205]

\* ------------------------------------------------ pacingEngine properties
RECURSIVE RatSum(_, _)
RatSum(out, n) ==
  IF n = 0 THEN RatZero ELSE RatAdd(out[n].silenceAfter, RatSum(out, n - 1))

\* The weights of all atoms but the last, summed
WeightBeforeLast(atoms) ==
  IF Len(atoms) = 0 THEN 0
  ELSE SumSeq([i \in 1..(Len(atoms) - 1) |-> atoms[i].weight], 1)

\* Atom i's share is positive and below the minimum break: it is dropped
Dropped(atoms, budget, i) ==
  /\ i < Len(atoms)
  /\ atoms[i].weight * budget > 0
  /\ atoms[i].weight * budget < MIN_BREAK_TENTHS * WeightBeforeLast(atoms)

\* C12: distributeSilence gives the last atom silenceAfter = 0 and every
\* other atom weight x (silenceBudget / totalWeight), totalWeight being the
\* sum of the weights of all atoms but the last, replaced by 0 when below
\* the minimum break; with totalWeight = 0 every atom gets 0 and nothing is
\* ever divided by zero; the allocations sum to at most silenceBudget, and
\* to silenceBudget exactly when totalWeight > 0 and nothing is dropped.
C12_DistributeSilenceShares ==
  calc.op = "distributeSilence"
  => LET atoms == calc.atoms
         B == calc.silenceBudget
         out == calc.out
         W == WeightBeforeLast(atoms)
         n == Len(atoms)
     IN /\ Len(out) = n
        /\ \A i \in 1..n : out[i].silenceAfter.den > 0
        /\ n > 0 => out[n].silenceAfter.num = 0
        /\ W = 0 => \A i \in 1..n : out[i].silenceAfter.num = 0
        /\ W > 0 => \A i \in 1..(n - 1) :
             IF atoms[i].weight * B < MIN_BREAK_TENTHS * W
             THEN out[i].silenceAfter.num = 0
             ELSE RatEq(out[i].silenceAfter, Rat(atoms[i].weight * B, W))
        /\ ~RatLess(Rat(B, 1), RatSum(out, n))
        /\ (W > 0 /\ \A i \in 1..n : ~Dropped(atoms, B, i))
             => RatEq(RatSum(out, n), Rat(B, 1))

\* C12 witness: a comma and a paragraph break share 0.3 s: the comma's
\* 0.05 s is dropped, the paragraph's 0.25 s is kept
C12_Witness ==
  /\ calc.op = "distributeSilence"
  /\ Len(calc.atoms) = 3 /\ calc.silenceBudget = 3
  /\ calc.atoms[1].punctuation = "comma" /\ calc.atoms[2].punctuation = "paragraph"
  /\ calc.out[1].silenceAfter.num = 0
  /\ RatEq(calc.out[2].silenceAfter, Rat(5, 2))
  /\ calc.out[3].silenceAfter.num = 0

\* C13: for every pause rendered as markup (an atom with silenceAfter > 0),
\* each emitted break tag carries at most the 3.0 s ceiling and the
\* durations of the tags sum to the pause.
C13_BreakTagsSumToPause ==
  calc.op = "buildSSML"
  => \A i \in 1..Len(calc.atoms) :
       calc.atoms[i].silenceAfter.num > 0
       => /\ \A t \in 1..Len(calc.breaks[i]) :
               calc.breaks[i][t].time <= MAX_BREAK_TENTHS
          /\ RatEq(Rat(SumSeq([t \in 1..Len(calc.breaks[i]) |->
                                calc.breaks[i][t].time], 1), 1),
                   calc.atoms[i].silenceAfter)

\* The maximal runs of non-whitespace characters, as pairs of positions
MaximalRuns(characters) ==
  {<<a, b>> \in (1..Len(characters)) \X (1..Len(characters)) :
     /\ a <= b
     /\ \A i \in a..b : ~IsWhitespace(characters[i])
     /\ (a = 1 \/ IsWhitespace(characters[a - 1]))
     /\ (b = Len(characters) \/ IsWhitespace(characters[b + 1]))}

\* The runs in input order, as the words they should give
RECURSIVE RunsInOrder(_, _)
RunsInOrder(characters, runs) ==
  IF runs = {} THEN << >>
  ELSE LET r == CHOOSE x \in runs : \A y \in runs : x[1] <= y[1]
       IN << [word |-> SubSeq(characters, r[1], r[2]),
              startTime |-> StartTimeOf(r[1]), endTime |-> EndTimeOf(r[2])] >>
          \o RunsInOrder(characters, runs \ {r})

\* C14: characterAlignmentToWords emits, in input order, one entry per
\* maximal run of non-whitespace characters, from the start time of the
\* run's first character to the end time of its last, and discards a run if
\* and only if it begins with '<' (no run is empty); no other word is dropped.
C14_OneWordPerRun ==
  calc.op = "characterAlignmentToWords"
  => calc.out = RunsInOrder(calc.characters,
                            {r \in MaximalRuns(calc.characters) :
                               calc.characters[r[1]] # "<"})

C16_EncodersAsymmetricScale ==
  calc.op = "encode"
  => LET clamped == IF calc.sample < 0 - FloatOne THEN 0 - FloatOne
                    ELSE IF calc.sample > FloatOne THEN FloatOne
                    ELSE calc.sample
     IN /\ calc.out >= 0 - 32768 /\ calc.out <= 32767
        /\ clamped < 0 => calc.out = TruncDiv(clamped * 32768, FloatOne)
        /\ clamped >= 0 => calc.out = TruncDiv(clamped * 32767, FloatOne)
        /\ calc.sample = 0 - FloatOne => calc.out = 0 - 32768
        /\ calc.sample = FloatOne => calc.out = 32767

\* ------------------------------------------------- stretcher properties
StretchHasResult == fn = "stretch" /\ pc \in {"closing", "returned"}
StretchTargetSamplesCeil == CeilDiv(args.target * StretchRate, TicksPerSecond)
StretchTargetSamplesFloor == FloorDiv(args.target * StretchRate, TicksPerSecond)

\* Where the stretched output should hold the decoded samples: sample p
\* (counted from 1) moves right by one part of silence for every break at
\* or before it
StretchedPositions(len, breaks, part) ==
  {p + part * Cardinality({b \in 1..Len(breaks) : breaks[b].pos <= p - 1}) :
     p \in 1..len}

ScannedWindows ==
  {j \in 0..run.decodedLen :
     edgeOffsetOf(StretchRate) + j * coarseWindowOf(StretchRate)
       < run.decodedLen - edgeOffsetOf(StretchRate)}
WindowStart(j) == edgeOffsetOf(StretchRate) + j * coarseWindowOf(StretchRate)
QuietWindow(j) ==
  RmsBelowThreshold(run.input, WindowStart(j),
                    Min(WindowStart(j) + coarseWindowOf(StretchRate), run.decodedLen))

\* The maximal runs of quiet windows, as pairs of window numbers
QuietRuns ==
  {<<a, b>> \in ScannedWindows \X ScannedWindows :
     /\ a <= b
     /\ \A j \in a..b : QuietWindow(j)
     /\ (a - 1 \in ScannedWindows => ~QuietWindow(a - 1))
     /\ (b + 1 \in ScannedWindows => ~QuietWindow(b + 1))}
RunSamples(r) == (r[2] - r[1] + 1) * coarseWindowOf(StretchRate)

\* The runs longer than 350 ms, in order, as the breaks they should give
RECURSIVE BreaksOfRuns(_)
BreaksOfRuns(runs) ==
  IF runs = {} THEN << >>
  ELSE LET r == CHOOSE x \in runs : \A y \in runs : x[1] <= y[1]
       IN << [pos |-> WindowStart(r[1]) + RunSamples(r) \div 2,
              len |-> RunSamples(r)] >>
          \o BreaksOfRuns(runs \ {r})

\* C18: findBreaksFast reports a break for every maximal run of quiet
\* windows inside the guard margins that lasts longer than 350 ms, none for
\* a shorter run, and places each break at the midpoint of its run.
C18_BreakPerLongRun ==
  (fn = "stretch" /\ run.path \in {"breaks", "noBreaks"})
  => run.breaks = BreaksOfRuns({r \in QuietRuns :
                                 RunSamples(r) * 1000 > 350 * StretchRate})

\* ---------------------------------------------------- atomizeText properties
\* The maximal runs of characters that are not punctuation and hold more
\* than spaces, as pairs of positions
ContentRuns(text) ==
  {<<a, b>> \in (1..Len(text)) \X (1..Len(text)) :
     /\ a <= b
     /\ \A i \in a..b : ~IsPunctuation(text[i])
     /\ (a = 1 \/ IsPunctuation(text[a - 1]))
     /\ (b = Len(text) \/ IsPunctuation(text[b + 1]))
     /\ \E i \in a..b : text[i] # " "}

\* The punctuation marks that follow position b without interruption
TrailingPunctuation(text, b) ==
  {text[i] : i \in {j \in (b + 1)..Len(text) :
                      \A k \in (b + 1)..j : IsPunctuation(text[k])}}

ClassOfMarks(marks) ==
  IF "\n" \in marks THEN "paragraph"
  ELSE IF marks \cap {".", "?", "!"} # {} THEN "sentenceEnd"
  ELSE IF "," \in marks THEN "comma"
  ELSE "none"

RECURSIVE ExpectedAtoms(_, _)
ExpectedAtoms(text, runs) ==
  IF runs = {} THEN << >>
  ELSE LET r == CHOOSE x \in runs : \A y \in runs : x[1] <= y[1]
       IN << [first |-> CHOOSE i \in r[1]..r[2] :
                          text[i] # " " /\ \A j \in r[1]..(i - 1) : text[j] = " ",
              last |-> CHOOSE i \in r[1]..r[2] :
                         text[i] # " " /\ \A j \in (i + 1)..r[2] : text[j] = " ",
              punctuation |-> ClassOfMarks(TrailingPunctuation(text, r[2]))] >>
          \o ExpectedAtoms(text, runs \ {r})

\* C19: atomizeText emits the atoms in the order of the text and classifies
\* each atom's trailing punctuation run as paragraph if it holds a line
\* break, else sentenceEnd if it holds '.', '?' or '!', else comma if it
\* holds ',', else none; the weights are none = 0 < comma < sentenceEnd <
\* paragraph.
C19_AtomsClassifiedInOrder ==
  calc.op = "atomizeText"
  => LET expected == ExpectedAtoms(calc.text, ContentRuns(calc.text))
     IN /\ Len(calc.out) = Len(expected)
        /\ \A i \in 1..Len(expected) :
             /\ calc.out[i].punctuation = expected[i].punctuation
             /\ calc.out[i].text
                  = SubSeq(calc.text, expected[i].first, expected[i].last)
             /\ calc.out[i].weight = getPunctuationWeight(expected[i].punctuation)
        /\ getPunctuationWeight("none") = 0
        /\ 0 < getPunctuationWeight("comma")
        /\ getPunctuationWeight("comma") < getPunctuationWeight("sentenceEnd")
        /\ getPunctuationWeight("sentenceEnd") < getPunctuationWeight("paragraph")

\* C19 witness: "a.\na" gives two atoms, the first closed by a paragraph
\* break, the second by nothing
C19_Witness ==
  /\ calc.op = "atomizeText"
  /\ calc.text = <<"a", ".", "\n", "a">>
  /\ Len(calc.out) = 2
  /\ calc.out[1].punctuation = "paragraph"
  /\ calc.out[2].punctuation = "none"

\* C20: when the daily-limit window has expired (now is later than
\* nextResetTime), checkDailyLimit returns true and leaves the stored
\* dailyLimit as it was (sessionsToday, canMeditate and nextResetTime keep
\* their values).
C20_ExpiredCheckLeavesState ==
  (store.last.op = "checkDailyLimit" /\ store.last.expired)
  => /\ store.last.returned = TRUE
     /\ store.dailyLimit = store.last.before

\* C21: when the daily-limit window has expired, incrementDailySession resets
\* the stale counter before incrementing: from sessionsToday = 1,
\* maxSessions = 1, a free user ends with sessionsToday = 1 and
\* canMeditate = false.
C21_IncrementResetsStaleCounter ==
  (/\ store.last.op = "incrementDailySession"
   /\ store.last.expired
   /\ store.user = "free"
   /\ store.last.before.sessionsToday = 1
   /\ store.last.before.maxSessions = 1)
  => /\ store.dailyLimit.sessionsToday = 1
     /\ store.dailyLimit.canMeditate = FALSE

\* ---------------------------------------------- fadeAudioVolume properties
ClampedInto01(v) ==
  IF v.num < 0 THEN RatZero ELSE IF v.num > v.den THEN RatOne ELSE RatNorm(v)

FadeWithinBounds ==
  /\ fade.pc # "none"
     => (~RatLess(fade.volume, RatZero) /\ ~RatLess(RatOne, fade.volume))
  /\ fade.pc = "resolved"
     => /\ fade.volume = ClampedInto01(fade.toVolume)
        /\ fade.ticks <= CeilDiv(fade.durationMs, DEFAULT_STEP_MS)
        /\ ~fade.interval.active

\* C24: a single call fadeAudioVolume(audio, toVolume, durationMs) always
\* resolves, after at most ceil(durationMs / 50) timer ticks, with the volume
\* exactly toVolume clamped into [0, 1]; the volume is within [0, 1] at every
\* tick and the interval timer is cleared once it has resolved.
C24_FadeResolvesAtTarget ==
  /\ []FadeWithinBounds
  /\ <>(fade.pc = "resolved")

\* A fade that took every tick of its duration, towards a clamped target
C24_Witness ==
  /\ fade.pc = "resolved"
  /\ fade.ticks = MaxFadeSteps
  /\ fade.ticks = CeilDiv(fade.durationMs, DEFAULT_STEP_MS)
  /\ fade.toVolume = Rat(5, 1)
  /\ fade.volume = RatOne

\* ---------------------------------------------- MeditationScreen properties
\* C22: from a freshly mounted screen, pressing play starts a 3-second
\* countdown: play() is not invoked on either element before the countdown has
\* elapsed, it is invoked exactly once when it elapses, and presses during the
\* countdown neither restart nor shorten it.
C22_PlayWaitsForCountdown ==
  /\ screen.mounted
     => /\ screen.firstStart # "fired"
           => (screen.music.plays = 0 /\ screen.voice.plays = 0)
        /\ screen.firstStart = "fired" => screen.since = SoftStartTicks
        /\ (screen.firstStart = "fired" /\ screen.playbackActionId = 1)
           => (screen.music.plays = 1 /\ screen.voice.plays <= 1)

\* The countdown has elapsed after a press that it ignored, and both elements
\* have been started once
C22_Witness ==
  /\ screen.mounted
  /\ screen.firstStart = "fired"
  /\ screen.playbackActionId = 1
  /\ screen.presses >= 2
  /\ screen.music.plays = 1
  /\ screen.voice.present
  /\ screen.voice.plays = 1

\* C30: after pausePlaybackNow has completed, the voice and music elements are
\* paused with volume 0, and their volume stays 0 until playback is started
\* again.
C30_PausedElementsStaySilent ==
  (screen.mounted /\ screen.pauseDone)
  => /\ screen.music.paused
     /\ screen.music.volume = RatZero
     /\ screen.voice.present
        => (screen.voice.paused /\ screen.voice.volume = RatZero)

\* ---------------------------------------------- ProcessingScreen properties
\* C27: once ProcessingScreen has received a completion step, onComplete is
\* invoked exactly once: never twice, and never zero times even if currentStep
\* changes again before the 800 ms delay has elapsed (as long as it has not
\* been invoked, the timer that will invoke it is set).
C27_OnCompleteExactlyOnce ==
  (processing.mounted /\ processing.completionReceived)
  => /\ processing.onCompleteCalls <= 1
     /\ processing.onCompleteCalls = 0 => processing.timer >= 0

\* ---------------------------------------------------- generation properties
EventsOf(p) == IF p.pc = "none" THEN << >> ELSE p.events

ReadyEvents(events) == {i \in 1..Len(events) : events[i].voiceReady}

\* C26: in createMeditationFast, for both tiers, the progress events of a run
\* that returns are monotone in canStartMeditation, exactly one event has
\* voiceReady = true, that event is the last one, and it is emitted whether
\* voice generation succeeds or fails.
C26_ProgressMonotoneOneReady ==
  LET events == EventsOf(progress)
  IN /\ \A i, j \in 1..Len(events) :
          (i < j /\ events[i].canStartMeditation)
          => events[j].canStartMeditation
     /\ progress.pc = "returned" => ReadyEvents(events) = {Len(events)}
     /\ progress.pc \notin {"none", "returned"} => ReadyEvents(events) = {}

\* A free-tier run whose voice generation failed has returned
C26_Witness ==
  /\ progress.pc = "returned"
  /\ progress.tier = "free"
  /\ progress.voiceAudioUrl = IntroUrl(progress)
  /\ Len(progress.events) = 6

\* C28: a clip marked used is not offered again by getAvailableIntros
\* (getAvailableOutros) until every intro (outro) has been used; exhausting the
\* clips of one kind does not make used clips of the other kind available.
C28_UsedClipsNotOfferedAgain ==
  progress.pc = "selecting"
  => /\ progress.availableIntros \cap progress.seenIntros = {}
     /\ progress.availableOutros \cap progress.seenOutros = {}

\* C23: replaceManagedObjectUrl(previous, next) returns next, or null when
\* next is absent, and revokes previous exactly when previous is a blob URL
\* different from next; it revokes neither next nor a URL that is not a blob
\* URL, so the URL managed after updateVoiceAudioUrl is not one that call
\* revoked.
C23_ManagedUrlNeverRevoked ==
  page.last.op = "updateVoiceAudioUrl"
  => /\ page.last.returned = IF page.last.next.scheme \in {"null", "undefined"}
                             THEN NullUrl ELSE page.last.next
     /\ page.last.revoked =
          IF page.last.previous.scheme = "blob"
             /\ page.last.previous # page.last.next
          THEN {page.last.previous} ELSE {}
     /\ page.last.next \notin page.last.revoked
     /\ \A url \in page.last.revoked : url.scheme = "blob"
     /\ page.voiceAudioUrlRef = page.last.returned
     /\ page.voiceAudioUrlRef \notin page.last.revoked

\* The managed blob URL was replaced by itself when the run returned, and is
\* revoked when the meditation is closed
C23_Witness ==
  /\ page.last.op = "updateVoiceAudioUrl"
  /\ page.last.previous.scheme = "blob"
  /\ page.last.next = NullUrl
  /\ page.last.revoked = {page.last.previous}
  /\ page.revoked = {page.last.previous}
  /\ page.voiceAudioUrlRef = NullUrl
  /\ \E i \in 1..Len(page.runs) :
       /\ page.runs[i].pc = "returned"
       /\ page.runs[i].voiceAudioUrl = page.last.previous

\* C25: after handleMeditationClose or handleSuccessComplete the managed
\* voice-audio URL is null and stays null until the next recording is
\* submitted, also when a free-tier generation started earlier still runs in
\* the background and reports its result afterwards.
C25_ClosedMeditationKeepsNullUrl ==
  (page.mounted /\ page.closedSince) => page.voiceAudioUrlRef = NullUrl

====
